---- MODULE Spec2Model ----
(***************************************************************************)
(* Aggregation / enrichment / geocoding core of Pala's Groupie Tracker.    *)
(*                                                                         *)
(* Go strings are modelled as sequences of byte values (ASCII codes), so   *)
(* that trimming, case conversion, prefix/substring tests and the          *)
(* byte-wise ordering of strings are computed, not assumed.                *)
(*                                                                         *)
(* The module holds several specifications over one set of variables, one  *)
(* per component:                                                          *)
(*   SpecToken     the Spotify token manager and the operations using it,  *)
(*                 with the environment loaded once at startup             *)
(*   SpecTokenEnv  the same, in a process whose environment may be changed *)
(*                 between calls (os.Getenv is read on every call)         *)
(*   SpecCache     the TTL caches: artist dataset, relations index and the *)
(*                 suggestion index built from the two                     *)
(*   SpecGeo       the geocoder: concurrent Geocode calls, their provider  *)
(*                 requests and the cancellation of their contexts         *)
(*   SpecReleases  the latest-releases listings of Spotify, Deezer, Apple  *)
(*   SpecTracks    the top-tracks operations of Spotify, Deezer, Apple     *)
(*   SpecDates     ParseSpotifyReleaseDate on release_date strings         *)
(*   SpecSearch    the artist searches and the search pages                *)
(*   SpecDetail    the artist detail pages of the four sources             *)
(*   SpecChoice    the choice of the best candidate of a provider response *)
(*   SpecFanOut    the gated fan-outs of a request and their join          *)
(*   SpecLocations the location keys a detail request geocodes             *)
(*   SpecRequests  the upstream requests of an operation and their         *)
(*                 timeouts, with time passing and the timers firing       *)
(*   SpecWiki      the Wikipedia queries of a lookup and the title chosen  *)
(*   SpecArtwork   the Apple artwork cache and its lookups                 *)
(***************************************************************************)
EXTENDS Integers, Sequences, FiniteSets, TLC

VARIABLES
    started,            \* main has run godotenv.Load
    env,                \* the process environment read with os.Getenv
    nowSec,             \* time.Now() for the token manager, in seconds
    spotifyTokenCache,  \* [token, expiresAt] (guarded by spotifyTokenCache.mu)
    tk,                 \* per caller: the operation it is in
    ev,                 \* the latest call or return of the token component
    nowMin,                 \* time.Now() for the TTL caches, in minutes
    artistsCache,           \* []Artist (guarded by artistsCacheMu)
    artistsCacheFetched,    \* 0 is the zero time.Time
    relationsCache,         \* *RelationIndex (guarded by relationsCacheMu)
    relationsCacheFetched,
    suggestCacheItems,      \* []suggestItem (guarded by suggestCacheMu)
    suggestCacheFetched,
    succeeded,              \* per cache: a fetch of it has succeeded (history)
    rd,                     \* per reader: the read it is in
    cev,                    \* the latest return of a read of a TTL cache
    geoCache,               \* g.cache: key -> (result, ok)
    geoFirst,               \* per key: the first (result, ok) Geocode returned (history)
    gc,                     \* per caller of Geocode: the call it is in
    gev,                    \* the latest return of Geocode
    rel,                    \* the latest-releases listing in progress or just done
    trk,                    \* the top-tracks call in progress or just done
    pd,                     \* the call of ParseSpotifyReleaseDate in progress or just done
    sr,                     \* the search in progress or just done
    dt,                     \* the artist detail request in progress or just answered
    rq,                     \* the operation waiting for its upstream requests
    sc,                     \* the choice among the candidates of a response, in progress or just done
    fo,                     \* the fan-out of a request, in progress or just joined
    lc,                     \* the locations of a detail request that are geocoded
    wk,                     \* the Wikipedia lookup in progress or just finished
    aw                      \* the Apple artwork cache and the call using it

tokenVars == <<started, env, nowSec, spotifyTokenCache, tk, ev>>

cacheVars ==
    <<nowMin, artistsCache, artistsCacheFetched, relationsCache,
      relationsCacheFetched, suggestCacheItems, suggestCacheFetched,
      succeeded, rd, cev>>

geoVars == <<geoCache, geoFirst, gc, gev>>

vars == <<tokenVars, cacheVars, geoVars, rel, trk, pd, sr, dt, rq, sc, fo, lc, wk, aw>>

\* what the token component leaves alone
outsideToken == <<cacheVars, geoVars, rel, trk, pd, sr, dt, rq, sc, fo, lc, wk, aw>>

\* what the TTL caches leave alone
outsideCache == <<tokenVars, geoVars, rel, trk, pd, sr, dt, rq, sc, fo, lc, wk, aw>>

\* what the geocoder leaves alone
outsideGeo == <<tokenVars, cacheVars, rel, trk, pd, sr, dt, rq, sc, fo, lc, wk, aw>>

\* what the release listings leave alone
outsideRelease == <<tokenVars, cacheVars, geoVars, trk, pd, sr, dt, rq, sc, fo, lc, wk, aw>>

\* what the top-tracks operations leave alone
outsideTracks == <<tokenVars, cacheVars, geoVars, rel, pd, sr, dt, rq, sc, fo, lc, wk, aw>>

\* what the date parser leaves alone
outsideParse == <<tokenVars, cacheVars, geoVars, rel, trk, sr, dt, rq, sc, fo, lc, wk, aw>>

\* what the searches leave alone
outsideSearch == <<tokenVars, cacheVars, geoVars, rel, trk, pd, dt, rq, sc, fo, lc, wk, aw>>

\* what the detail pages leave alone
outsideDetail == <<tokenVars, cacheVars, geoVars, rel, trk, pd, sr, rq, sc, fo, lc, wk, aw>>

\* what the upstream requests leave alone
outsideRequests == <<tokenVars, cacheVars, geoVars, rel, trk, pd, sr, dt, sc, fo, lc, wk, aw>>

\* what the choice of a candidate leaves alone
outsideChoice == <<tokenVars, cacheVars, geoVars, rel, trk, pd, sr, dt, rq, fo, lc, wk, aw>>

\* what a fan-out leaves alone
outsideFanOut == <<tokenVars, cacheVars, geoVars, rel, trk, pd, sr, dt, rq, sc, lc, wk, aw>>

\* what the geocoding loop leaves alone
outsideLocations == <<tokenVars, cacheVars, geoVars, rel, trk, pd, sr, dt, rq, sc, fo, wk, aw>>

\* what a Wikipedia lookup leaves alone
outsideWiki == <<tokenVars, cacheVars, geoVars, rel, trk, pd, sr, dt, rq, sc, fo, lc, aw>>

\* what an artwork lookup leaves alone
outsideArtwork == <<tokenVars, cacheVars, geoVars, rel, trk, pd, sr, dt, rq, sc, fo, lc, wk>>

(***************************************************************************)
(* Bounds of the model.                                                    *)
(***************************************************************************)
MaxNowSec == 3
TickMinutes == 5
MaxNowMin == 11

\* the goroutines calling into the package at the same time
Callers == {1, 2}

(***************************************************************************)
(* Strings as byte sequences.                                              *)
(***************************************************************************)
IsSpace(c) == c \in {9, 10, 11, 12, 13, 32}

RECURSIVE TrimLeft(_)
TrimLeft(s) ==
    IF s # <<>> /\ IsSpace(Head(s)) THEN TrimLeft(Tail(s)) ELSE s

RECURSIVE TrimRight(_)
TrimRight(s) ==
    IF s # <<>> /\ IsSpace(s[Len(s)]) THEN TrimRight(SubSeq(s, 1, Len(s) - 1)) ELSE s

TrimSpace(s) == TrimRight(TrimLeft(s))

ToLower(s) == [i \in DOMAIN s |-> IF s[i] \in 65..90 THEN s[i] + 32 ELSE s[i]]

ToUpper(s) == [i \in DOMAIN s |-> IF s[i] \in 97..122 THEN s[i] - 32 ELSE s[i]]

EqualFold(a, b) == ToLower(a) = ToLower(b)

HasPrefix(s, p) == Len(p) <= Len(s) /\ SubSeq(s, 1, Len(p)) = p

Contains(s, sub) ==
    \E i \in 0..(Len(s) - Len(sub)) : SubSeq(s, i + 1, i + Len(sub)) = sub

\* a < b for Go strings: byte-wise lexicographic order
RECURSIVE StrLess(_, _)
StrLess(a, b) ==
    IF b = <<>> THEN FALSE
    ELSE IF a = <<>> THEN TRUE
    ELSE IF Head(a) # Head(b) THEN Head(a) < Head(b)
    ELSE StrLess(Tail(a), Tail(b))

(***************************************************************************)
(* Token manager (internal/api/spotify.go) and Last.fm listener lookup.    *)
(***************************************************************************)
\* time.Now().Before(expiresAt.Add(-30 * time.Second)): the early-refresh margin
RefreshMarginSec == 30

\* values of SPOTIFY_CLIENT_ID, SPOTIFY_CLIENT_SECRET and LASTFM_API_KEY
EnvValues == [id : {"", "cid"}, secret : {"", "sec"}, lastfm : {"", "key"}]

NoEnv == [id |-> "", secret |-> "", lastfm |-> ""]

\* access_token and expires_in of a 200 response of the token endpoint
AccessTokens == {"t1", "t2"}
ExpiresIns == {0, 31, 32}

\* the ways spotifyDoJSON fails, and the empty access_token
TokenFailures == {"transport", "status", "decode", "emptyToken"}

TokenResponses ==
    [kind : {"ok"}, token : AccessTokens, expiresIn : ExpiresIns]
        \cup [kind : TokenFailures, token : {""}, expiresIn : {0}]

\* the operations that begin with getSpotifyToken
SpotifyOps == {"search", "artist", "topTracks", "albums"}

\* A caller's record: where its operation stands (pc), which operation it is
\* (op) and whether it has sent a token request (tokenReqs).
IdleCall == [pc |-> "idle", op |-> "none", tokenReqs |-> 0]

\* The latest event, as a test harness around the package observes it:
\*   "token"    getSpotifyToken returned token, with left = expiresAt - now
\*              seconds of validity, from the cache or not (the API request of
\*              the operation follows at once)
\*   "refresh"  getSpotifyToken found no valid cached token and sent the token
\*              request; hadToken and left describe what the cache held
\*   "lastfm"   FetchArtistMonthlyListeners sent its request
\*   "return"   the operation returned err ("" for success) after sending
\*              tokenReqs, apiReqs and lastfmReqs requests
\* resp is the token endpoint's answer when the event follows one.
NoEvent ==
    [kind |-> "none", err |-> "", token |-> "", left |-> 0, fromCache |-> FALSE,
     hadToken |-> FALSE, tokenReqs |-> 0, apiReqs |-> 0, lastfmReqs |-> 0,
     resp |-> "none"]

TokenInit ==
    /\ started = FALSE
    /\ env = NoEnv
    /\ nowSec = 0
    /\ spotifyTokenCache = [token |-> "", expiresAt |-> 0]
    /\ tk = [p \in Callers |-> IdleCall]
    /\ ev = NoEvent

\* godotenv.Load at startup fixes the environment the process runs with
LoadEnv(e) ==
    /\ ~started
    /\ started' = TRUE
    /\ env' = e
    /\ UNCHANGED <<nowSec, spotifyTokenCache, tk, ev>>
    /\ UNCHANGED outsideToken

\* os.Setenv in a running process (this program never calls it)
Setenv(e) ==
    /\ started
    /\ e # env
    /\ env' = e
    /\ UNCHANGED <<started, nowSec, spotifyTokenCache, tk, ev>>
    /\ UNCHANGED outsideToken

TickSec ==
    /\ started
    /\ nowSec < MaxNowSec
    /\ nowSec' = nowSec + 1
    /\ UNCHANGED <<started, env, spotifyTokenCache, tk, ev>>
    /\ UNCHANGED outsideToken

\* getSpotifyToken line 128
CredentialsMissing(e) == e.id = "" \/ e.secret = ""

\* getSpotifyToken line 133, evaluated under spotifyTokenCache.mu
TokenCacheValidMarginZero(c, now) == c.token # "" /\ now < c.expiresAt
TokenCacheValidInclusive(c, now) ==
    c.token # "" /\ now <= c.expiresAt - RefreshMarginSec
TokenCacheValid(c, now) ==
    c.token # "" /\ now < c.expiresAt - RefreshMarginSec

\* getSpotifyToken lines 125-139: the credentials, then the cache under the mutex:
\* an error, the cached token, or on to the token request
GetTokenEntryCacheFirst(c, e, now) ==
    IF TokenCacheValid(c, now) THEN [out |-> "cached", token |-> c.token]
    ELSE IF CredentialsMissing(e) THEN [out |-> "err", token |-> ""]
    ELSE [out |-> "refresh", token |-> ""]
GetTokenEntry(c, e, now) ==
    IF CredentialsMissing(e) THEN [out |-> "err", token |-> ""]
    ELSE IF TokenCacheValid(c, now) THEN [out |-> "cached", token |-> c.token]
    ELSE [out |-> "refresh", token |-> ""]

\* SearchSpotifyArtists, GetSpotifyArtist, GetSpotifyArtistTopTracks and
\* GetSpotifyArtistAlbums begin alike (lines 179-182, 212-215, 233-236, 263-266):
\* the token first, its error returned as it is; with a token the API request is
\* built and sent.
CallSpotify(p, op) ==
    /\ started
    /\ tk[p].pc = "idle"
    /\ LET c == spotifyTokenCache
           g == GetTokenEntry(c, env, nowSec)
       IN  CASE g.out = "err" ->
                  /\ tk' = [tk EXCEPT ![p] = IdleCall]
                  /\ ev' = [NoEvent EXCEPT !.kind = "return",
                                           !.err = "missing spotify credentials"]
             [] g.out = "cached" ->
                  /\ tk' = [tk EXCEPT ![p] = [pc |-> "api", op |-> op, tokenReqs |-> 0]]
                  /\ ev' = [NoEvent EXCEPT !.kind = "token", !.token = g.token,
                                           !.left = c.expiresAt - nowSec,
                                           !.fromCache = TRUE, !.hadToken = TRUE,
                                           !.apiReqs = 1]
             [] g.out = "refresh" ->
                  /\ tk' = [tk EXCEPT ![p] = [pc |-> "token", op |-> op, tokenReqs |-> 1]]
                  /\ ev' = [NoEvent EXCEPT !.kind = "refresh",
                                           !.hadToken = (c.token # ""),
                                           !.left = IF c.token # ""
                                                    THEN c.expiresAt - nowSec ELSE 0,
                                           !.tokenReqs = 1]
    /\ UNCHANGED <<started, env, nowSec, spotifyTokenCache>>
    /\ UNCHANGED outsideToken

\* getSpotifyToken lines 166-172: the new token and its absolute expiry
StoreToken(c, r, now) ==
    [token |-> r.token, expiresAt |-> now + r.expiresIn]

\* getSpotifyToken lines 158-172: the cache after the token endpoint has answered
TokenFailureClearsCache(c, r, now) ==
    IF r.kind = "ok" THEN StoreToken(c, r, now)
    ELSE [token |-> "", expiresAt |-> 0]
CacheAfterTokenResponse(c, r, now) ==
    IF r.kind = "ok" THEN StoreToken(c, r, now) ELSE c

\* getSpotifyToken lines 158-174 and the caller's lines after it
TokenResponse(p, r) ==
    /\ tk[p].pc = "token"
    /\ spotifyTokenCache' = CacheAfterTokenResponse(spotifyTokenCache, r, nowSec)
    /\ IF r.kind = "ok"
       THEN /\ tk' = [tk EXCEPT ![p].pc = "api"]
            /\ ev' = [NoEvent EXCEPT !.kind = "token", !.token = r.token,
                                     !.left = spotifyTokenCache'.expiresAt - nowSec,
                                     !.tokenReqs = 1, !.apiReqs = 1,
                                     !.resp = r.kind]
       ELSE /\ tk' = [tk EXCEPT ![p] = IdleCall]
            /\ ev' = [NoEvent EXCEPT !.kind = "return", !.err = r.kind,
                                     !.tokenReqs = 1, !.resp = r.kind]
    /\ UNCHANGED <<started, env, nowSec>>
    /\ UNCHANGED outsideToken

\* the Spotify API request of the operation has answered (spotifyDoJSON)
ApiResponse(p, ok) ==
    /\ tk[p].pc = "api"
    /\ tk' = [tk EXCEPT ![p] = IdleCall]
    /\ ev' = [NoEvent EXCEPT !.kind = "return",
                             !.err = IF ok THEN "" ELSE "spotify request failed",
                             !.tokenReqs = tk[p].tokenReqs, !.apiReqs = 1]
    /\ UNCHANGED <<started, env, nowSec, spotifyTokenCache>>
    /\ UNCHANGED outsideToken

\* FetchArtistMonthlyListeners lines 24-33: the API key, then the name
ListenersEntry(e, name) ==
    IF e.lastfm = "" THEN "missing LASTFM_API_KEY"
    ELSE IF TrimSpace(name) = <<>> THEN "empty artist name"
    ELSE ""

\* artist names given to FetchArtistMonthlyListeners: "", " ", "Q"
ListenerNames == {<<>>, <<32>>, <<81>>}

CallListeners(p, name) ==
    /\ started
    /\ tk[p].pc = "idle"
    /\ LET err == ListenersEntry(env, name)
       IN  IF err # ""
           THEN /\ tk' = [tk EXCEPT ![p] = IdleCall]
                /\ ev' = [NoEvent EXCEPT !.kind = "return", !.err = err]
           ELSE /\ tk' = [tk EXCEPT ![p] = [pc |-> "lastfm", op |-> "listeners",
                                            tokenReqs |-> 0]]
                /\ ev' = [NoEvent EXCEPT !.kind = "lastfm", !.lastfmReqs = 1]
    /\ UNCHANGED <<started, env, nowSec, spotifyTokenCache>>
    /\ UNCHANGED outsideToken

\* FetchArtistMonthlyListeners lines 50-76: the Last.fm request has answered
ListenersResponse(p, ok) ==
    /\ tk[p].pc = "lastfm"
    /\ tk' = [tk EXCEPT ![p] = IdleCall]
    /\ ev' = [NoEvent EXCEPT !.kind = "return",
                             !.err = IF ok THEN "" ELSE "lastfm request failed",
                             !.lastfmReqs = 1]
    /\ UNCHANGED <<started, env, nowSec, spotifyTokenCache>>
    /\ UNCHANGED outsideToken

TokenNext ==
    \/ \E e \in EnvValues : LoadEnv(e)
    \/ TickSec
    \/ \E p \in Callers, op \in SpotifyOps : CallSpotify(p, op)
    \/ \E p \in Callers, r \in TokenResponses : TokenResponse(p, r)
    \/ \E p \in Callers, ok \in BOOLEAN : ApiResponse(p, ok)
    \/ \E p \in Callers, n \in ListenerNames : CallListeners(p, n)
    \/ \E p \in Callers, ok \in BOOLEAN : ListenersResponse(p, ok)

TokenEnvNext ==
    \/ TokenNext
    \/ \E e \in EnvValues : Setenv(e)

(***************************************************************************)
(* TTL caches: FetchArtists and FetchRelations (Groupie client) and        *)
(* getGroupieSuggestItems (handlers/artists_suggest.go).                   *)
(***************************************************************************)
\* const groupieCacheTTL = 10 * time.Minute
groupieCacheTTL == 10
\* const suggestCacheTTL = 10 * time.Minute
suggestCacheTTL == 10

Readers == {1, 2}

\* the artist lists the dataset endpoint can decode to (null decodes to no artist)
ArtistLists == {<<>>, <<"Queen">>}

\* a *RelationIndex: nil, or a RelationIndex with its Index
NilRelations == [nil |-> TRUE, Index |-> <<>>]
RelationIndexes ==
    {[nil |-> FALSE, Index |-> <<>>], [nil |-> FALSE, Index |-> <<"london-uk">>]}

\* http.Get fails, the body does not decode, or a value is decoded
ArtistsResponses ==
    [kind : {"transport", "decode"}, artists : {<<>>}]
        \cup [kind : {"ok"}, artists : ArtistLists]
RelationsResponses ==
    [kind : {"transport", "decode"}, relations : {NilRelations}]
        \cup [kind : {"ok"}, relations : RelationIndexes]

\* getGroupieSuggestItems lines 141-207: one "group" item per artist name, one
\* "location" item per location key, groups first (the names and keys of the
\* lists above are distinct, non-blank and already in label order)
BuildItems(artists, relations) ==
    [i \in 1..Len(artists) |-> [Type |-> "group", Label |-> artists[i]]]
        \o [i \in 1..Len(relations.Index) |->
                [Type |-> "location", Label |-> relations.Index[i]]]

\* A reader's record: the read it called (fn), where it stands (pc), the stale
\* value it took under the mutex, the artists and relations getGroupieSuggestItems
\* has obtained so far, and whether a fetch of the cache it reads had succeeded
\* before the read began (prior).
IdleReader ==
    [pc |-> "idle", fn |-> "none", staleA |-> <<>>, staleR |-> NilRelations,
     artists |-> <<>>, prior |-> FALSE]

\* The latest return of a read: which read (fn), whether it
\* returned an error, the value it returned, whether it was answered from its
\* own cache without any fetch (cached), and prior as above.
NoCacheEvent ==
    [kind |-> "none", fn |-> "none", err |-> FALSE,
     artists |-> <<>>, relations |-> NilRelations, items |-> <<>>,
     cached |-> FALSE, prior |-> FALSE]

CacheInit ==
    /\ nowMin = 1
    /\ artistsCache = <<>>
    /\ artistsCacheFetched = 0
    /\ relationsCache = NilRelations
    /\ relationsCacheFetched = 0
    /\ suggestCacheItems = <<>>
    /\ suggestCacheFetched = 0
    /\ succeeded = [f \in {"FetchArtists", "FetchRelations", "suggest"} |-> FALSE]
    /\ rd = [p \in Readers |-> IdleReader]
    /\ cev = NoCacheEvent

TickMin ==
    /\ nowMin + TickMinutes <= MaxNowMin
    /\ nowMin' = nowMin + TickMinutes
    /\ UNCHANGED <<artistsCache, artistsCacheFetched, relationsCache,
                   relationsCacheFetched, suggestCacheItems, suggestCacheFetched,
                   succeeded, rd, cev>>
    /\ UNCHANGED outsideCache

\* cacheFresh (part_017 lines 29-31)
cacheFreshInclusive(since, now) == since # 0 /\ now - since <= groupieCacheTTL
cacheFresh(since, now) == since # 0 /\ now - since < groupieCacheTTL

\* FetchArtists line 36 and FetchRelations line 94, under the cache's mutex
ArtistsCacheHit(now) ==
    cacheFresh(artistsCacheFetched, now) /\ Len(artistsCache) > 0
RelationsCacheHit(now) ==
    cacheFresh(relationsCacheFetched, now) /\ ~relationsCache.nil

\* getGroupieSuggestItems line 125
SuggestCacheHit(now) ==
    /\ suggestCacheFetched # 0
    /\ now - suggestCacheFetched < suggestCacheTTL
    /\ Len(suggestCacheItems) > 0

\* FetchArtists lines 47 and 59, FetchRelations lines 104 and 115
ArtistsStaleIgnored(stale) == FALSE
ArtistsStaleUsable(stale) == Len(stale) > 0
RelationsStaleUsable(stale) == ~stale.nil /\ Len(stale.Index) > 0

ReturnEvent(p, fn, e) ==
    [NoCacheEvent EXCEPT !.kind = "return", !.fn = fn,
                         !.err = e, !.prior = rd[p].prior]

\* FetchArtists lines 35-42, called directly
CallFetchArtists(p) ==
    /\ rd[p].pc = "idle"
    /\ IF ArtistsCacheHit(nowMin)
       THEN /\ rd' = [rd EXCEPT ![p] = IdleReader]
            /\ cev' = [NoCacheEvent EXCEPT
                          !.kind = "return", !.fn = "FetchArtists",
                          !.artists = artistsCache, !.cached = TRUE,
                          !.prior = succeeded["FetchArtists"]]
       ELSE /\ rd' = [rd EXCEPT ![p] =
                        [IdleReader EXCEPT !.pc = "artistsHTTP",
                                           !.fn = "FetchArtists",
                                           !.staleA = artistsCache,
                                           !.prior = succeeded["FetchArtists"]]]
            /\ cev' = cev
    /\ UNCHANGED <<nowMin, artistsCache, artistsCacheFetched, relationsCache,
                   relationsCacheFetched, suggestCacheItems, suggestCacheFetched,
                   succeeded>>
    /\ UNCHANGED outsideCache

\* FetchArtists lines 45-70: what FetchArtists returns once http.Get has answered
ArtistsResult(r, stale) ==
    IF r.kind = "ok" THEN [err |-> FALSE, artists |-> r.artists]
    ELSE IF ArtistsStaleUsable(stale) THEN [err |-> FALSE, artists |-> stale]
    ELSE [err |-> TRUE, artists |-> <<>>]

\* an answer that renews the timestamp of the dataset cache on a failure too
ArtistsResponseStampsFailure(p, r) ==
    /\ rd[p].pc = "artistsHTTP"
    /\ LET res == ArtistsResult(r, rd[p].staleA)
       IN  /\ IF r.kind = "ok"
              THEN /\ artistsCache' = r.artists
                   /\ artistsCacheFetched' = nowMin
                   /\ succeeded' = [succeeded EXCEPT !["FetchArtists"] = TRUE]
              ELSE /\ artistsCacheFetched' = nowMin
                   /\ UNCHANGED <<artistsCache, succeeded>>
           /\ IF rd[p].fn = "suggest" /\ ~res.err
              THEN /\ rd' = [rd EXCEPT ![p].pc = "sugRelations",
                                       ![p].artists = res.artists,
                                       ![p].staleA = <<>>]
                   /\ cev' = cev
              ELSE /\ rd' = [rd EXCEPT ![p] = IdleReader]
                   /\ cev' = [ReturnEvent(p, rd[p].fn, res.err) EXCEPT
                                 !.artists = res.artists]
    /\ UNCHANGED <<nowMin, relationsCache, relationsCacheFetched,
                   suggestCacheItems, suggestCacheFetched>>
    /\ UNCHANGED outsideCache

\* FetchArtists lines 45-70, called directly or by getGroupieSuggestItems
\* (line 132), which returns FetchArtists' error and otherwise goes on
ArtistsResponse(p, r) ==
    /\ rd[p].pc = "artistsHTTP"
    /\ LET res == ArtistsResult(r, rd[p].staleA)
       IN  /\ IF r.kind = "ok"
              THEN /\ artistsCache' = r.artists
                   /\ artistsCacheFetched' = nowMin
                   /\ succeeded' = [succeeded EXCEPT !["FetchArtists"] = TRUE]
              ELSE UNCHANGED <<artistsCache, artistsCacheFetched, succeeded>>
           /\ IF rd[p].fn = "suggest" /\ ~res.err
              THEN /\ rd' = [rd EXCEPT ![p].pc = "sugRelations",
                                       ![p].artists = res.artists,
                                       ![p].staleA = <<>>]
                   /\ cev' = cev
              ELSE /\ rd' = [rd EXCEPT ![p] = IdleReader]
                   /\ cev' = [ReturnEvent(p, rd[p].fn, res.err) EXCEPT
                                 !.artists = res.artists]
    /\ UNCHANGED <<nowMin, relationsCache, relationsCacheFetched,
                   suggestCacheItems, suggestCacheFetched>>
    /\ UNCHANGED outsideCache

\* FetchRelations lines 93-100, called directly
CallFetchRelations(p) ==
    /\ rd[p].pc = "idle"
    /\ IF RelationsCacheHit(nowMin)
       THEN /\ rd' = [rd EXCEPT ![p] = IdleReader]
            /\ cev' = [NoCacheEvent EXCEPT
                          !.kind = "return", !.fn = "FetchRelations",
                          !.relations = relationsCache, !.cached = TRUE,
                          !.prior = succeeded["FetchRelations"]]
       ELSE /\ rd' = [rd EXCEPT ![p] =
                        [IdleReader EXCEPT !.pc = "relationsHTTP",
                                           !.fn = "FetchRelations",
                                           !.staleR = relationsCache,
                                           !.prior = succeeded["FetchRelations"]]]
            /\ cev' = cev
    /\ UNCHANGED <<nowMin, artistsCache, artistsCacheFetched, relationsCache,
                   relationsCacheFetched, suggestCacheItems, suggestCacheFetched,
                   succeeded>>
    /\ UNCHANGED outsideCache

\* FetchRelations lines 102-126: what it returns once http.Get has answered
RelationsResult(r, stale) ==
    IF r.kind = "ok" THEN [err |-> FALSE, relations |-> r.relations]
    ELSE IF RelationsStaleUsable(stale) THEN [err |-> FALSE, relations |-> stale]
    ELSE [err |-> TRUE, relations |-> NilRelations]

\* FetchRelations lines 102-126, called directly or by getGroupieSuggestItems
\* (line 136), which then builds and stores its items (lines 141-214)
RelationsResponse(p, r) ==
    /\ rd[p].pc = "relationsHTTP"
    /\ LET res == RelationsResult(r, rd[p].staleR)
       IN  /\ IF r.kind = "ok"
              THEN /\ relationsCache' = r.relations
                   /\ relationsCacheFetched' = nowMin
                   /\ succeeded' = [succeeded EXCEPT !["FetchRelations"] = TRUE]
              ELSE UNCHANGED <<relationsCache, relationsCacheFetched, succeeded>>
           /\ IF rd[p].fn = "suggest" /\ ~res.err
              THEN /\ rd' = [rd EXCEPT ![p].pc = "sugStore",
                                       ![p].staleR = res.relations]
                   /\ cev' = cev
              ELSE /\ rd' = [rd EXCEPT ![p] = IdleReader]
                   /\ cev' = [ReturnEvent(p, rd[p].fn, res.err) EXCEPT
                                 !.relations = res.relations]
    /\ UNCHANGED <<nowMin, artistsCache, artistsCacheFetched,
                   suggestCacheItems, suggestCacheFetched>>
    /\ UNCHANGED outsideCache

\* getGroupieSuggestItems lines 124-130
CallSuggest(p) ==
    /\ rd[p].pc = "idle"
    /\ IF SuggestCacheHit(nowMin)
       THEN /\ rd' = [rd EXCEPT ![p] = IdleReader]
            /\ cev' = [NoCacheEvent EXCEPT
                          !.kind = "return", !.fn = "suggest",
                          !.items = suggestCacheItems, !.cached = TRUE,
                          !.prior = succeeded["suggest"]]
       ELSE /\ rd' = [rd EXCEPT ![p] =
                        [IdleReader EXCEPT !.pc = "sugArtists", !.fn = "suggest",
                                           !.prior = succeeded["suggest"]]]
            /\ cev' = cev
    /\ UNCHANGED <<nowMin, artistsCache, artistsCacheFetched, relationsCache,
                   relationsCacheFetched, suggestCacheItems, suggestCacheFetched,
                   succeeded>>
    /\ UNCHANGED outsideCache

\* getGroupieSuggestItems line 132: FetchArtists lines 35-42
SuggestFetchArtists(p) ==
    /\ rd[p].pc = "sugArtists"
    /\ rd' = [rd EXCEPT ![p] =
                IF ArtistsCacheHit(nowMin)
                THEN [@ EXCEPT !.pc = "sugRelations", !.artists = artistsCache]
                ELSE [@ EXCEPT !.pc = "artistsHTTP", !.staleA = artistsCache]]
    /\ UNCHANGED <<nowMin, artistsCache, artistsCacheFetched, relationsCache,
                   relationsCacheFetched, suggestCacheItems, suggestCacheFetched,
                   succeeded, cev>>
    /\ UNCHANGED outsideCache

\* getGroupieSuggestItems line 136: FetchRelations lines 93-100
SuggestFetchRelations(p) ==
    /\ rd[p].pc = "sugRelations"
    /\ rd' = [rd EXCEPT ![p] =
                IF RelationsCacheHit(nowMin)
                THEN [@ EXCEPT !.pc = "sugStore", !.staleR = relationsCache]
                ELSE [@ EXCEPT !.pc = "relationsHTTP", !.staleR = relationsCache]]
    /\ UNCHANGED <<nowMin, artistsCache, artistsCacheFetched, relationsCache,
                   relationsCacheFetched, suggestCacheItems, suggestCacheFetched,
                   succeeded, cev>>
    /\ UNCHANGED outsideCache

\* getGroupieSuggestItems lines 141-214: build, store under the mutex, return
\* (in "sugStore" staleR holds the relations FetchRelations returned)
SuggestStore(p) ==
    /\ rd[p].pc = "sugStore"
    /\ LET items == BuildItems(rd[p].artists, rd[p].staleR)
       IN  /\ suggestCacheItems' = items
           /\ suggestCacheFetched' = nowMin
           /\ cev' = [ReturnEvent(p, "suggest", FALSE) EXCEPT !.items = items]
    /\ succeeded' = [succeeded EXCEPT !["suggest"] = TRUE]
    /\ rd' = [rd EXCEPT ![p] = IdleReader]
    /\ UNCHANGED <<nowMin, artistsCache, artistsCacheFetched, relationsCache,
                   relationsCacheFetched>>
    /\ UNCHANGED outsideCache

CacheNext ==
    \/ TickMin
    \/ \E p \in Readers : CallFetchArtists(p)
    \/ \E p \in Readers, r \in ArtistsResponses : ArtistsResponse(p, r)
    \/ \E p \in Readers : CallFetchRelations(p)
    \/ \E p \in Readers, r \in RelationsResponses : RelationsResponse(p, r)
    \/ \E p \in Readers : CallSuggest(p)
    \/ \E p \in Readers : SuggestFetchArtists(p)
    \/ \E p \in Readers : SuggestFetchRelations(p)
    \/ \E p \in Readers : SuggestStore(p)

(***************************************************************************)
(* Geocoder (internal/geo/geocode.go): Geocode, tryGeocode, tryProviders,  *)
(* geocodeOpenMeteo, geocodeNominatim and the pure helpers they use.       *)
(* Strings are sequences of bytes.                                         *)
(***************************************************************************)
min3(a, b, c) ==
    IF a <= b /\ a <= c THEN a
    ELSE IF b <= a /\ b <= c THEN b
    ELSE c

\* One row of the two-row table; cur[0] = i is the first element of cur.
\* (The row built so far always has j elements: the test makes each element
\* be computed before the next one is.)
RECURSIVE LevRow(_, _, _, _, _)
LevRow(prev, ai, b, j, cur) ==
    IF j > Len(b) \/ Len(cur) # j THEN cur
    ELSE LET cost == IF ai # b[j] THEN 1 ELSE 0
             del == prev[j + 1] + 1
             ins == cur[j] + 1
             sub == prev[j] + cost
         IN  LevRow(prev, ai, b, j + 1, Append(cur, min3(del, ins, sub)))

RECURSIVE LevRows(_, _, _, _)
LevRows(a, b, i, prev) ==
    IF i > Len(a) \/ Len(prev) # Len(b) + 1 THEN prev[Len(b) + 1]
    ELSE LevRows(a, b, i + 1, LevRow(prev, a[i], b, 1, <<i>>))

levenshtein(a, b) ==
    IF a = b THEN 0
    ELSE IF Len(a) = 0 THEN Len(b)
    ELSE IF Len(b) = 0 THEN Len(a)
    ELSE LevRows(a, b, 1, [j \in 1..(Len(b) + 1) |-> j - 1])

\* strings.Fields: the maximal runs of non-space bytes
RECURSIVE FieldsFrom(_, _, _, _)
FieldsFrom(s, i, word, acc) ==
    IF i > Len(s) THEN (IF word = <<>> THEN acc ELSE Append(acc, word))
    ELSE IF IsSpace(s[i])
         THEN FieldsFrom(s, i + 1, <<>>,
                         IF word = <<>> THEN acc ELSE Append(acc, word))
         ELSE FieldsFrom(s, i + 1, Append(word, s[i]), acc)

Fields(s) == FieldsFrom(s, 1, <<>>, <<>>)

\* strings.Join(words, " ")
RECURSIVE JoinSpace(_)
JoinSpace(words) ==
    IF Len(words) = 0 THEN <<>>
    ELSE IF Len(words) = 1 THEN words[1]
    ELSE words[1] \o <<32>> \o JoinSpace(Tail(words))

\* strings.ReplaceAll(s, ",", " ")
ReplaceCommas(s) == [i \in 1..Len(s) |-> IF s[i] = 44 THEN 32 ELSE s[i]]

titleWords(s) ==
    LET words == Fields(TrimSpace(s))
        title(w) == ToUpper(SubSeq(w, 1, 1)) \o ToLower(SubSeq(w, 2, Len(w)))
    IN  JoinSpace([i \in 1..Len(words) |-> title(words[i])])

\* the 50 state names of normalizeUSStateName, "alabama" .. "wyoming"
states ==
    << <<97, 108, 97, 98, 97, 109, 97>>,
       <<97, 108, 97, 115, 107, 97>>,
       <<97, 114, 105, 122, 111, 110, 97>>,
       <<97, 114, 107, 97, 110, 115, 97, 115>>,
       <<99, 97, 108, 105, 102, 111, 114, 110, 105, 97>>,
       <<99, 111, 108, 111, 114, 97, 100, 111>>,
       <<99, 111, 110, 110, 101, 99, 116, 105, 99, 117, 116>>,
       <<100, 101, 108, 97, 119, 97, 114, 101>>,
       <<102, 108, 111, 114, 105, 100, 97>>,
       <<103, 101, 111, 114, 103, 105, 97>>,
       <<104, 97, 119, 97, 105, 105>>,
       <<105, 100, 97, 104, 111>>,
       <<105, 108, 108, 105, 110, 111, 105, 115>>,
       <<105, 110, 100, 105, 97, 110, 97>>,
       <<105, 111, 119, 97>>,
       <<107, 97, 110, 115, 97, 115>>,
       <<107, 101, 110, 116, 117, 99, 107, 121>>,
       <<108, 111, 117, 105, 115, 105, 97, 110, 97>>,
       <<109, 97, 105, 110, 101>>,
       <<109, 97, 114, 121, 108, 97, 110, 100>>,
       <<109, 97, 115, 115, 97, 99, 104, 117, 115, 101, 116, 116, 115>>,
       <<109, 105, 99, 104, 105, 103, 97, 110>>,
       <<109, 105, 110, 110, 101, 115, 111, 116, 97>>,
       <<109, 105, 115, 115, 105, 115, 115, 105, 112, 112, 105>>,
       <<109, 105, 115, 115, 111, 117, 114, 105>>,
       <<109, 111, 110, 116, 97, 110, 97>>,
       <<110, 101, 98, 114, 97, 115, 107, 97>>,
       <<110, 101, 118, 97, 100, 97>>,
       <<110, 101, 119, 32, 104, 97, 109, 112, 115, 104, 105, 114, 101>>,
       <<110, 101, 119, 32, 106, 101, 114, 115, 101, 121>>,
       <<110, 101, 119, 32, 109, 101, 120, 105, 99, 111>>,
       <<110, 101, 119, 32, 121, 111, 114, 107>>,
       <<110, 111, 114, 116, 104, 32, 99, 97, 114, 111, 108, 105, 110, 97>>,
       <<110, 111, 114, 116, 104, 32, 100, 97, 107, 111, 116, 97>>,
       <<111, 104, 105, 111>>,
       <<111, 107, 108, 97, 104, 111, 109, 97>>,
       <<111, 114, 101, 103, 111, 110>>,
       <<112, 101, 110, 110, 115, 121, 108, 118, 97, 110, 105, 97>>,
       <<114, 104, 111, 100, 101, 32, 105, 115, 108, 97, 110, 100>>,
       <<115, 111, 117, 116, 104, 32, 99, 97, 114, 111, 108, 105, 110, 97>>,
       <<115, 111, 117, 116, 104, 32, 100, 97, 107, 111, 116, 97>>,
       <<116, 101, 110, 110, 101, 115, 115, 101, 101>>,
       <<116, 101, 120, 97, 115>>,
       <<117, 116, 97, 104>>,
       <<118, 101, 114, 109, 111, 110, 116>>,
       <<118, 105, 114, 103, 105, 110, 105, 97>>,
       <<119, 97, 115, 104, 105, 110, 103, 116, 111, 110>>,
       <<119, 101, 115, 116, 32, 118, 105, 114, 103, 105, 110, 105, 97>>,
       <<119, 105, 115, 99, 111, 110, 115, 105, 110>>,
       <<119, 121, 111, 109, 105, 110, 103>> >>

\* the loop of normalizeUSStateName (bestD starts at 999 and a state replaces
\* best only at a strictly smaller distance): the first state at the least
\* distance
NearestState(query) ==
    LET dist == [i \in 1..Len(states) |-> levenshtein(query, states[i])]
        least == CHOOSE d \in {dist[i] : i \in 1..Len(states)} :
                    \A i \in 1..Len(states) : d <= dist[i]
        first == CHOOSE i \in 1..Len(states) :
                    dist[i] = least /\ \A j \in 1..(i - 1) : dist[j] # least
    IN  IF least < 999 THEN [best |-> states[first], bestD |-> least]
        ELSE [best |-> <<>>, bestD |-> 999]

normalizeUSStateName(s) ==
    LET q == JoinSpace(Fields(ReplaceCommas(ToLower(TrimSpace(s)))))
    IN  IF q = <<>> THEN [norm |-> <<>>, ok |-> FALSE]
        ELSE LET nearest == NearestState(q)
             IN  IF nearest.best # <<>> /\ nearest.bestD <= 2
                 THEN [norm |-> titleWords(nearest.best), ok |-> TRUE]
                 ELSE [norm |-> <<>>, ok |-> FALSE]

scoreCandidate(query, name, admin1) ==
    LET q == ToLower(TrimSpace(query))
        n == ToLower(TrimSpace(name))
        a == ToLower(TrimSpace(admin1))
        d == levenshtein(q, n)
    IN  (IF n = q THEN 100 ELSE 0)
        + (IF HasPrefix(n, q) /\ q # <<>> THEN 40 ELSE 0)
        + (IF Contains(n, q) /\ q # <<>> THEN 20 ELSE 0)
        + (IF q # <<>> /\ n # <<>>
           THEN (IF d = 0 THEN 30 ELSE IF d = 1 THEN 20 ELSE IF d = 2 THEN 10 ELSE 0)
           ELSE 0)
        + (IF a # <<>> /\ q # <<>> /\ Contains(a, q) THEN 5 ELSE 0)

\* strconv.ParseFloat for the texts of the candidates below: a run of decimal
\* digits is its value, anything else is an error
RECURSIVE DigitsValue(_)
DigitsValue(s) ==
    IF Len(s) = 0 THEN 0
    ELSE 10 * DigitsValue(SubSeq(s, 1, Len(s) - 1)) + (s[Len(s)] - 48)

ParseFloat(s) ==
    IF Len(s) > 0 /\ \A i \in 1..Len(s) : s[i] \in 48..57
    THEN [err |-> FALSE, value |-> DigitsValue(s)]
    ELSE [err |-> TRUE, value |-> 0]

\* The places the providers know. A candidate is one element of a response:
\* for Open-Meteo name, latitude, longitude, country, country_code and admin1;
\* for Nominatim name, lat and lon (texts), display_name and address.state,
\* address.country_code and address.country.
ParisFrance ==
    [name |-> <<80, 97, 114, 105, 115>>, admin1 |-> <<73, 68, 70>>, countryCode |-> <<70, 82>>,
     country |-> <<70, 114, 97, 110, 99, 101>>, latitude |-> 48, longitude |-> 2,
     lat |-> <<52, 56>>, lon |-> <<50>>, displayName |-> <<80, 97, 114, 105, 115, 44, 32, 70, 114, 97, 110, 99, 101>>]
ParisTexas ==
    [name |-> <<80, 97, 114, 105, 115>>, admin1 |-> <<84, 101, 120, 97, 115>>, countryCode |-> <<85, 83>>,
     country |-> <<85, 83, 65>>, latitude |-> 33, longitude |-> 95,
     lat |-> <<51, 51>>, lon |-> <<57, 53>>, displayName |-> <<80, 97, 114, 105, 115, 44, 32, 84, 101, 120, 97, 115>>]
OhioState ==
    [name |-> <<79, 104, 105, 111>>, admin1 |-> <<79, 104, 105, 111>>, countryCode |-> <<117, 115>>,
     country |-> <<85, 83, 65>>, latitude |-> 40, longitude |-> 82,
     lat |-> <<52, 48>>, lon |-> <<56, 50>>, displayName |-> <<79, 104, 105, 111, 44, 32, 85, 83, 65>>]
\* a candidate without a name whose lat is not a number
Unnamed ==
    [name |-> <<>>, admin1 |-> <<>>, countryCode |-> <<117, 115>>,
     country |-> <<>>, latitude |-> 41, longitude |-> 81,
     lat |-> <<120>>, lon |-> <<56, 49>>, displayName |-> <<79, 104, 105, 111>>]

Places == {ParisFrance, ParisTexas, OhioState, Unnamed}

MaxCandidates == 2

\* a response body: up to MaxCandidates distinct places, in any order
CandidateLists ==
    {cs \in UNION {[1..k -> Places] : k \in 0..MaxCandidates} :
        \A i, j \in 1..Len(cs) : i # j => cs[i] # cs[j]}

\* client.Do fails (which a cancelled context makes it do), the status is not
\* 200 (or the body does not decode), or the body decodes to its candidates
ProviderResponses ==
    [kind : {"transport", "status"}, cands : {<<>>}]
        \cup [kind : {"ok"}, cands : CandidateLists]

ZeroResult == [Lat |-> 0, Lng |-> 0, Display |-> <<>>]
NotFound == [res |-> ZeroResult, ok |-> FALSE, err |-> FALSE]
Failed == [res |-> ZeroResult, ok |-> FALSE, err |-> TRUE]

\* a loop that replaces best on an equal score too
RECURSIVE BestFromLatest(_, _, _)
BestFromLatest(scores, i, best) ==
    IF i > Len(scores) THEN best
    ELSE IF scores[i] >= scores[best] THEN BestFromLatest(scores, i + 1, i)
    ELSE BestFromLatest(scores, i + 1, best)

\* the index of the first candidate with the highest score (the loops at lines
\* 183-191 and 269-285 replace best only on a strictly higher score)
RECURSIVE BestFrom(_, _, _)
BestFrom(scores, i, best) ==
    IF i > Len(scores) THEN best
    ELSE IF scores[i] > scores[best] THEN BestFrom(scores, i + 1, i)
    ELSE BestFrom(scores, i + 1, best)

\* geocodeOpenMeteo lines 167-181
OpenMeteoUnfiltered(candidates, countryCode) == candidates
OpenMeteoFiltered(candidates, countryCode) ==
    LET cc == ToUpper(TrimSpace(countryCode))
    IN  IF cc # <<>>
        THEN SelectSeq(candidates, LAMBDA r : ToUpper(TrimSpace(r.countryCode)) = cc)
        ELSE candidates

\* geocodeOpenMeteo lines 139-201: what it returns for a response
geocodeOpenMeteo(name, countryCode, r) ==
    IF r.kind # "ok" THEN Failed
    ELSE IF Len(r.cands) = 0 THEN NotFound
    ELSE LET candidates == OpenMeteoFiltered(r.cands, countryCode)
         IN  IF Len(candidates) = 0 THEN NotFound
             ELSE LET scores == [i \in 1..Len(candidates) |->
                                    scoreCandidate(name, candidates[i].name,
                                                   candidates[i].admin1)]
                      best == candidates[BestFrom(scores, 2, 1)]
                      d1 == TrimSpace(best.name)
                      d2 == IF TrimSpace(best.admin1) # <<>>
                                  /\ ~EqualFold(best.admin1, best.name)
                            THEN d1 \o <<44, 32>> \o TrimSpace(best.admin1)
                            ELSE d1
                      display == IF TrimSpace(best.country) # <<>>
                                 THEN d2 \o <<44, 32>> \o TrimSpace(best.country)
                                 ELSE d2
                  IN  [res |-> [Lat |-> best.latitude, Lng |-> best.longitude,
                                Display |-> display],
                       ok |-> TRUE, err |-> FALSE]

\* geocodeNominatim lines 254-267
NominatimFiltered(candidates, countryCode) ==
    LET cc == ToLower(TrimSpace(countryCode))
    IN  IF cc # <<>>
        THEN SelectSeq(candidates, LAMBDA r : ToLower(TrimSpace(r.countryCode)) = cc)
        ELSE candidates

\* geocodeNominatim lines 270-272 and 277-280
NominatimName(c) ==
    IF TrimSpace(c.name) = <<>> THEN TrimSpace(c.displayName) ELSE TrimSpace(c.name)

\* geocodeNominatim lines 224-302: what it returns for a response
geocodeNominatim(name, countryCode, r) ==
    IF r.kind # "ok" THEN Failed
    ELSE IF Len(r.cands) = 0 THEN NotFound
    ELSE LET candidates == NominatimFiltered(r.cands, countryCode)
         IN  IF Len(candidates) = 0 THEN NotFound
             ELSE LET scores == [i \in 1..Len(candidates) |->
                                    scoreCandidate(name, NominatimName(candidates[i]),
                                                   candidates[i].admin1)]
                      best == candidates[BestFrom(scores, 2, 1)]
                      lat == ParseFloat(TrimSpace(best.lat))
                      lng == ParseFloat(TrimSpace(best.lon))
                      display == IF TrimSpace(best.displayName) = <<>>
                                 THEN TrimSpace(NominatimName(best))
                                 ELSE TrimSpace(best.displayName)
                  IN  IF lat.err \/ lng.err THEN Failed
                      ELSE [res |-> [Lat |-> lat.value, Lng |-> lng.value,
                                     Display |-> display],
                            ok |-> TRUE, err |-> FALSE]

\* tryProviders lines 105-115: what it returns once Open-Meteo has answered
\* without a result (its error kept in omErr) and Nominatim has answered
tryProvidersAfterNominatim(omErr, nom) ==
    IF ~nom.err /\ nom.ok THEN [res |-> nom.res, ok |-> TRUE, err |-> FALSE]
    ELSE IF omErr THEN Failed
    ELSE NotFound

\* the (name, countryCode) pairs Geocode is called with: a blank name; "Paris"
\* without a country; " paris" and "Paris" in the US (one key); and the
\* misspelt state "Ohia" in the US
GeoQueries ==
    {<<<<32>>, <<>>>>, <<<<80, 97, 114, 105, 115>>, <<>>>>, <<<<32, 112, 97, 114, 105, 115>>, <<85, 83>>>>,
     <<<<80, 97, 114, 105, 115>>, <<32, 117, 115>>>>, <<<<79, 104, 105, 97>>, <<32, 117, 115>>>>,
     <<<<111, 104, 105, 111>>, <<85, 83>>>>}

MaxCacheKeys == 1
GeoCallers == {1, 2}

\* Geocode lines 46-52
GeoName(name) == TrimSpace(name)
GeoCC(countryCode) == ToUpper(TrimSpace(countryCode))
GeoKey(name, code) == ToLower(name) \o <<124>> \o code

\* normalizeUSStateName of the names Geocode is called with
USStateOf ==
    LET table == {<<GeoName(q[1]), normalizeUSStateName(GeoName(q[1]))>> :
                    q \in GeoQueries}
    IN  [n \in {t[1] : t \in table} |-> (CHOOSE t \in table : t[1] = n)[2]]

US == <<85, 83>>

\* A call's record: where it stands (pc), the trimmed name n, the upper-cased
\* country code cc, what normalizeUSStateName(n) returns (tryGeocode calls it
\* only for the country code "US"), whether its context
\* has been cancelled, and whether Open-Meteo returned an error in the
\* tryProviders it is in.
IdleGeo ==
    [pc |-> "idle", n |-> <<>>, cc |-> <<>>, norm |-> <<>>, normOk |-> FALSE,
     cancelled |-> FALSE, omErr |-> FALSE]

\* The latest return of Geocode: its key, (result, found), whether it was
\* answered from the cache, whether its context was cancelled, the error it
\* returned, and whether the last Open-Meteo request of a call that found
\* nothing had failed.
NoGeoEvent ==
    [kind |-> "none", key |-> <<>>, cc |-> <<>>, res |-> ZeroResult, ok |-> FALSE,
     cached |-> FALSE, cancelled |-> FALSE, err |-> FALSE, omErr |-> FALSE]

GeoInit ==
    /\ geoCache = <<>>
    /\ geoFirst = <<>>
    /\ gc = [p \in GeoCallers |-> IdleGeo]
    /\ gev = NoGeoEvent

\* g.cache[key] = cachedResult{...} (line 64); the time of the store is never read
CacheStore(cache, key, res, ok) ==
    [k \in DOMAIN cache \cup {key} |->
        IF k = key THEN [result |-> res, ok |-> ok] ELSE cache[k]]

\* history: what the first return of Geocode for a key was
FirstReturn(first, key, res, ok) ==
    IF key \in DOMAIN first THEN first
    ELSE [k \in DOMAIN first \cup {key} |->
            IF k = key THEN [result |-> res, ok |-> ok] ELSE first[k]]

\* the keys of the calls that are past the cache lookup
KeysInFlight ==
    {GeoKey(gc[q].n, gc[q].cc) : q \in {c \in GeoCallers : gc[c].pc # "idle"}}

\* Geocode lines 45-59 and the first step of tryGeocode (lines 73-79)
CallGeocode(p, name, countryCode, cancelled) ==
    /\ gc[p].pc = "idle"
    /\ LET n == GeoName(name)
           cc == GeoCC(countryCode)
           key == GeoKey(n, cc)
       IN  IF n = <<>>
           THEN /\ gev' = [NoGeoEvent EXCEPT !.kind = "return", !.cc = cc,
                                             !.cancelled = cancelled]
                /\ UNCHANGED <<gc, geoFirst>>
           ELSE IF key \in DOMAIN geoCache
           THEN /\ gev' = [NoGeoEvent EXCEPT
                              !.kind = "return", !.key = key, !.cc = cc,
                              !.res = geoCache[key].result, !.ok = geoCache[key].ok,
                              !.cached = TRUE, !.cancelled = cancelled]
                /\ geoFirst' = FirstReturn(geoFirst, key, geoCache[key].result,
                                           geoCache[key].ok)
                /\ UNCHANGED gc
           ELSE /\ Cardinality(DOMAIN geoCache \cup KeysInFlight \cup {key})
                      <= MaxCacheKeys
                /\ LET us == IF cc = US THEN USStateOf[n]
                             ELSE [norm |-> <<>>, ok |-> FALSE]
                   IN  gc' = [gc EXCEPT ![p] =
                                [pc |-> IF us.ok THEN "nomFirst" ELSE "omRaw",
                                 n |-> n, cc |-> cc, norm |-> us.norm,
                                 normOk |-> us.ok, cancelled |-> cancelled,
                                 omErr |-> FALSE]]
                /\ UNCHANGED <<gev, geoFirst>>
    /\ UNCHANGED geoCache
    /\ UNCHANGED outsideGeo

\* the caller's context is cancelled (or its deadline passes) during the call
CancelContext(p) ==
    /\ gc[p].pc # "idle"
    /\ ~gc[p].cancelled
    /\ gc' = [gc EXCEPT ![p].cancelled = TRUE]
    /\ UNCHANGED <<geoCache, geoFirst, gev>>
    /\ UNCHANGED outsideGeo

\* Geocode lines 61-67: tryGeocode has returned (res, ok, nil)
\* an error return that hands on the error of tryProviders
tryGeocodeErrorKept(providersErr) == providersErr

\* tryGeocode line 96: the error returned with a not-found result is nil,
\* whatever error tryProviders returned (lines 82 and 90 only test it)
tryGeocodeError(providersErr) == FALSE

FinishGeocode(p, res, ok) ==
    LET key == GeoKey(gc[p].n, gc[p].cc)
    IN  /\ geoCache' = CacheStore(geoCache, key, res, ok)
        /\ geoFirst' = FirstReturn(geoFirst, key, res, ok)
        /\ gev' = [NoGeoEvent EXCEPT !.kind = "return", !.key = key,
                                     !.cc = gc[p].cc, !.res = res, !.ok = ok,
                                     !.cancelled = gc[p].cancelled,
                                     !.err = ~ok /\ tryGeocodeError(gc[p].omErr),
                                     !.omErr = ~ok /\ gc[p].omErr]
        /\ gc' = [gc EXCEPT ![p] = IdleGeo]

ContinueGeocode(p, pc, omErr) ==
    /\ gc' = [gc EXCEPT ![p].pc = pc, ![p].omErr = omErr]
    /\ UNCHANGED <<geoCache, geoFirst, gev>>

\* a retry with the normalized name whatever the name and the country are
AfterRawProvidersAlways(p) == ContinueGeocode(p, "omNorm", FALSE)

\* tryGeocode lines 88-96, after tryProviders with the raw name found nothing
AfterRawProviders(p) ==
    IF gc[p].cc = US /\ gc[p].normOk /\ ~EqualFold(gc[p].norm, gc[p].n)
    THEN ContinueGeocode(p, "omNorm", FALSE)
    ELSE FinishGeocode(p, ZeroResult, FALSE)

\* a request of a cancelled context fails in client.Do
Answers(p, r) == gc[p].cancelled => r.kind = "transport"

\* tryGeocode lines 73-79: Nominatim first for a recognised US state
NominatimFirstResponse(p, r) ==
    /\ gc[p].pc = "nomFirst"
    /\ Answers(p, r)
    /\ LET nom == geocodeNominatim(gc[p].norm, gc[p].cc, r)
       IN  IF ~nom.err /\ nom.ok THEN FinishGeocode(p, nom.res, TRUE)
           ELSE ContinueGeocode(p, "omRaw", FALSE)
    /\ UNCHANGED outsideGeo

\* tryProviders lines 100-103 with the raw name (tryGeocode line 82) or the
\* normalized one (line 90)
OpenMeteoResponse(p, r) ==
    /\ gc[p].pc \in {"omRaw", "omNorm"}
    /\ Answers(p, r)
    /\ LET name == IF gc[p].pc = "omRaw" THEN gc[p].n ELSE gc[p].norm
           om == geocodeOpenMeteo(name, gc[p].cc, r)
       IN  IF ~om.err /\ om.ok THEN FinishGeocode(p, om.res, TRUE)
           ELSE ContinueGeocode(p, IF gc[p].pc = "omRaw" THEN "nomRaw" ELSE "nomNorm",
                                om.err)
    /\ UNCHANGED outsideGeo

\* tryProviders lines 105-115 and what tryGeocode does with its return
NominatimResponse(p, r) ==
    /\ gc[p].pc \in {"nomRaw", "nomNorm"}
    /\ Answers(p, r)
    /\ LET name == IF gc[p].pc = "nomRaw" THEN gc[p].n ELSE gc[p].norm
           tp == tryProvidersAfterNominatim(
                    gc[p].omErr, geocodeNominatim(name, gc[p].cc, r))
       IN  IF ~tp.err /\ tp.ok THEN FinishGeocode(p, tp.res, TRUE)
           ELSE IF gc[p].pc = "nomRaw" THEN AfterRawProviders(p)
           ELSE FinishGeocode(p, ZeroResult, FALSE)
    /\ UNCHANGED outsideGeo

GeoNext ==
    \/ \E p \in GeoCallers, q \in GeoQueries, cancelled \in BOOLEAN :
          CallGeocode(p, q[1], q[2], cancelled)
    \/ \E p \in GeoCallers : CancelContext(p)
    \/ \E p \in GeoCallers, r \in ProviderResponses : NominatimFirstResponse(p, r)
    \/ \E p \in GeoCallers, r \in ProviderResponses : OpenMeteoResponse(p, r)
    \/ \E p \in GeoCallers, r \in ProviderResponses : NominatimResponse(p, r)

(***************************************************************************)
(* Latest releases: GetSpotifyArtistAlbums (spotify.go), GetDeezerArtist-  *)
(* Albums (Deezer client) and GetAppleArtistAlbums (apple.go): what they   *)
(* make of the responses they receive.                                     *)
(***************************************************************************)
IsDigits(s) == \A i \in 1..Len(s) : s[i] \in 48..57

IsLeap(y) == (y % 4 = 0 /\ y % 100 # 0) \/ y % 400 = 0

DaysIn(y, m) ==
    IF m = 2 THEN (IF IsLeap(y) THEN 29 ELSE 28)
    ELSE IF m \in {4, 6, 9, 11} THEN 30
    ELSE 31

\* a time.Time as far as the program looks at it: the calendar day and the
\* seconds of the day as written, the nanoseconds of the fraction, and the
\* offset of the zone from UTC in seconds
NoTime == [ok |-> FALSE, day |-> 0, sec |-> 0, nano |-> 0, off |-> 0]

\* a day as a number that grows with the date
DayOf(y, m, d) == y * 10000 + m * 100 + d

\* time.Parse("2006-01-02", s)
ParseYMD(s) ==
    IF /\ Len(s) = 10
       /\ IsDigits(SubSeq(s, 1, 4)) /\ s[5] = 45
       /\ IsDigits(SubSeq(s, 6, 7)) /\ s[8] = 45
       /\ IsDigits(SubSeq(s, 9, 10))
    THEN LET y == DigitsValue(SubSeq(s, 1, 4))
             m == DigitsValue(SubSeq(s, 6, 7))
             d == DigitsValue(SubSeq(s, 9, 10))
         IN  IF m \in 1..12 /\ d >= 1 /\ d <= DaysIn(y, m)
             THEN [ok |-> TRUE, day |-> DayOf(y, m, d), sec |-> 0, nano |-> 0, off |-> 0]
             ELSE NoTime
    ELSE NoTime

\* time.Parse("2006-01", s)
ParseYM(s) ==
    IF Len(s) = 7 /\ IsDigits(SubSeq(s, 1, 4)) /\ s[5] = 45 /\ IsDigits(SubSeq(s, 6, 7))
          /\ DigitsValue(SubSeq(s, 6, 7)) \in 1..12
    THEN [ok |-> TRUE,
          day |-> DayOf(DigitsValue(SubSeq(s, 1, 4)), DigitsValue(SubSeq(s, 6, 7)), 1),
          sec |-> 0, nano |-> 0, off |-> 0]
    ELSE NoTime

\* time.Parse("2006", s)
ParseY(s) ==
    IF Len(s) = 4 /\ IsDigits(s)
    THEN [ok |-> TRUE, day |-> DayOf(DigitsValue(s), 1, 1), sec |-> 0, nano |-> 0,
          off |-> 0]
    ELSE NoTime

\* the number of digits s begins with
RECURSIVE LeadingDigits(_)
LeadingDigits(s) ==
    IF s = <<>> \/ s[1] \notin 48..57 THEN 0 ELSE 1 + LeadingDigits(Tail(s))

\* a fraction of a second of n digits, in nanoseconds
RECURSIVE NanosOf(_, _)
NanosOf(value, n) == IF n >= 9 THEN value ELSE NanosOf(value * 10, n + 1)

\* the zone of a timestamp: "Z", or a sign, two digits of hours, a colon and
\* two digits of minutes; the offset from UTC in seconds
ParseZone(z) ==
    IF z = <<90>> THEN [ok |-> TRUE, off |-> 0]
    ELSE IF /\ Len(z) = 6 /\ z[1] \in {43, 45} /\ IsDigits(SubSeq(z, 2, 3))
            /\ z[4] = 58 /\ IsDigits(SubSeq(z, 5, 6))
            /\ DigitsValue(SubSeq(z, 2, 3)) <= 23 /\ DigitsValue(SubSeq(z, 5, 6)) <= 59
    THEN LET o == DigitsValue(SubSeq(z, 2, 3)) * 3600 + DigitsValue(SubSeq(z, 5, 6)) * 60
         IN  [ok |-> TRUE, off |-> IF z[1] = 45 THEN 0 - o ELSE o]
    ELSE [ok |-> FALSE, off |-> 0]

\* time.Parse(time.RFC3339, s) and time.Parse(time.RFC3339Nano, s), which
\* accept the same strings: yyyy-mm-ddThh:mm:ss, an optional fraction of one
\* to nine digits after a period, and the zone
ParseRFC3339(s) ==
    IF /\ Len(s) >= 20 /\ s[11] = 84
       /\ IsDigits(SubSeq(s, 12, 13)) /\ s[14] = 58
       /\ IsDigits(SubSeq(s, 15, 16)) /\ s[17] = 58
       /\ IsDigits(SubSeq(s, 18, 19))
       /\ ParseYMD(SubSeq(s, 1, 10)).ok
    THEN LET h == DigitsValue(SubSeq(s, 12, 13))
             mi == DigitsValue(SubSeq(s, 15, 16))
             se == DigitsValue(SubSeq(s, 18, 19))
             rest == SubSeq(s, 20, Len(s))
             digits == IF rest[1] = 46 THEN LeadingDigits(Tail(rest)) ELSE 0
             zone == ParseZone(IF rest[1] = 46 THEN SubSeq(rest, digits + 2, Len(rest))
                               ELSE rest)
         IN  IF /\ h <= 23 /\ mi <= 59 /\ se <= 59
                /\ (rest[1] = 46 => digits \in 1..9)
                /\ zone.ok
             THEN [ok |-> TRUE, day |-> ParseYMD(SubSeq(s, 1, 10)).day,
                   sec |-> h * 3600 + mi * 60 + se,
                   nano |-> IF digits = 0 THEN 0
                            ELSE NanosOf(DigitsValue(SubSeq(rest, 2, digits + 1)), digits),
                   off |-> zone.off]
             ELSE NoTime
    ELSE NoTime

\* a truncation that keeps the time of day
MidnightKeepClock(t) == t

\* time.Date(t.Year(), t.Month(), t.Day(), 0, 0, 0, 0, time.UTC): the day as
\* the timestamp writes it, at 00:00 UTC
Midnight(t) == [t EXCEPT !.sec = 0, !.nano = 0, !.off = 0]

ParseSpotifyReleaseDate(str) ==
    LET s == TrimSpace(str)
    IN  IF s = <<>> THEN NoTime
        ELSE IF ParseRFC3339(s).ok THEN Midnight(ParseRFC3339(s))
        ELSE IF Len(s) >= 10 /\ ParseYMD(SubSeq(s, 1, 10)).ok
             THEN Midnight(ParseYMD(SubSeq(s, 1, 10)))
        ELSE IF ParseYMD(s).ok THEN Midnight(ParseYMD(s))
        ELSE IF ParseYM(s).ok THEN ParseYM(s)
        ELSE IF ParseY(s).ok THEN ParseY(s)
        ELSE NoTime

ParseDeezerReleaseDate(str) ==
    LET s == TrimSpace(str)
    IN  IF s = <<>> \/ s = <<48, 48, 48, 48, 45, 48, 48, 45, 48, 48>> THEN NoTime
        ELSE IF ParseYMD(s).ok THEN ParseYMD(s)
        ELSE IF ParseRFC3339(s).ok THEN Midnight(ParseRFC3339(s))
        ELSE IF Len(s) >= 10 /\ ParseYMD(SubSeq(s, 1, 10)).ok
             THEN Midnight(ParseYMD(SubSeq(s, 1, 10)))
        ELSE NoTime

parseAppleDate(str) ==
    LET s == TrimSpace(str)
    IN  IF s = <<>> THEN NoTime
        ELSE IF ParseRFC3339(s).ok THEN ParseRFC3339(s)
        ELSE IF ParseYMD(s).ok THEN ParseYMD(s)
        ELSE NoTime

\* the number of the day among all days (days since 0000-03-01)
DayNumber(day) ==
    LET y == day \div 10000
        m == (day \div 100) % 100
        d == day % 100
        yy == IF m <= 2 THEN y - 1 ELSE y
        mp == (m + 9) % 12
    IN  yy * 365 + (yy \div 4) - (yy \div 100) + (yy \div 400)
            + ((153 * mp + 2) \div 5) + d - 1

\* the instant of a time: its day and second of the day in UTC, and its
\* nanoseconds
Instant(t) ==
    LET s == t.sec - t.off
    IN  <<DayNumber(t.day) + (IF s < 0 THEN 0 - 1 ELSE IF s >= 86400 THEN 1 ELSE 0),
          s % 86400, t.nano>>

\* t.Equal(u)
TimeEqual(t, u) == Instant(t) = Instant(u)

\* t.After(u)
TimeAfter(t, u) ==
    LET a == Instant(t)
        b == Instant(u)
    IN  \/ a[1] > b[1]
        \/ a[1] = b[1] /\ a[2] > b[2]
        \/ a[1] = b[1] /\ a[2] = b[2] /\ a[3] > b[3]

\* the less function of sort.SliceStable in GetSpotifyArtistAlbums (lines 324-344)
spotifyLess(a, b) ==
    LET di == ParseSpotifyReleaseDate(a.ReleaseDate)
        dj == ParseSpotifyReleaseDate(b.ReleaseDate)
    IN  IF di.ok /\ dj.ok /\ ~TimeEqual(di, dj) THEN TimeAfter(di, dj)
        ELSE IF di.ok # dj.ok THEN di.ok
        ELSE IF ToLower(a.Name) # ToLower(b.Name)
             THEN StrLess(ToLower(a.Name), ToLower(b.Name))
        ELSE StrLess(a.ID, b.ID)

\* the less function in GetDeezerArtistAlbums (lines 308-326)
deezerLess(a, b) ==
    LET di == ParseDeezerReleaseDate(a.ReleaseDate)
        dj == ParseDeezerReleaseDate(b.ReleaseDate)
    IN  IF di.ok /\ dj.ok /\ ~TimeEqual(di, dj) THEN TimeAfter(di, dj)
        ELSE IF di.ok # dj.ok THEN di.ok
        ELSE IF ToLower(a.Title) # ToLower(b.Title)
             THEN StrLess(ToLower(a.Title), ToLower(b.Title))
        ELSE a.ID < b.ID

\* the less function in GetAppleArtistAlbums (lines 288-305)
appleLess(a, b) ==
    LET di == parseAppleDate(a.ReleaseDate)
        dj == parseAppleDate(b.ReleaseDate)
    IN  IF di.ok /\ dj.ok /\ ~TimeEqual(di, dj) THEN TimeAfter(di, dj)
        ELSE IF di.ok # dj.ok THEN di.ok
        ELSE IF ToLower(a.CollectionName) # ToLower(b.CollectionName)
             THEN StrLess(ToLower(a.CollectionName), ToLower(b.CollectionName))
        ELSE a.CollectionID < b.CollectionID

\* the less function of sort.SliceStable in GetAppleArtistSongs (lines 362-378)
appleSongLess(a, b) ==
    LET di == parseAppleDate(a.ReleaseDate)
        dj == parseAppleDate(b.ReleaseDate)
    IN  IF di.ok /\ dj.ok /\ ~TimeEqual(di, dj) THEN TimeAfter(di, dj)
        ELSE IF di.ok # dj.ok THEN di.ok
        ELSE IF ToLower(a.TrackName) # ToLower(b.TrackName)
             THEN StrLess(ToLower(a.TrackName), ToLower(b.TrackName))
        ELSE a.TrackID < b.TrackID

ReleaseLess(provider, a, b) ==
    CASE provider = "spotify" -> spotifyLess(a, b)
      [] provider = "deezer" -> deezerLess(a, b)
      [] provider = "apple" -> appleLess(a, b)
      [] provider = "appleSongs" -> appleSongLess(a, b)
      [] provider = "locations" ->
            StrLess(ToLower(a.Name), ToLower(b.Name))

\* sort.SliceStable: x goes before the first element it is less than
RECURSIVE InsertStable(_, _, _, _)
InsertStable(provider, sorted, x, i) ==
    IF i > Len(sorted) THEN Append(sorted, x)
    ELSE IF ReleaseLess(provider, x, sorted[i])
         THEN SubSeq(sorted, 1, i - 1) \o <<x>> \o SubSeq(sorted, i, Len(sorted))
         ELSE InsertStable(provider, sorted, x, i + 1)

RECURSIVE SliceStableFrom(_, _, _, _)
SliceStableFrom(provider, s, i, sorted) ==
    IF i > Len(s) THEN sorted
    ELSE SliceStableFrom(provider, s, i + 1, InsertStable(provider, sorted, s[i], 1))

SliceStable(provider, s) == SliceStableFrom(provider, s, 1, <<>>)

\* merged = merged[:want]
Truncate(s, want) == IF Len(s) > want THEN SubSeq(s, 1, want) ELSE s

MaxItems == 3

\* all lists of up to n elements of a set
ListsOf(S, n) == UNION {[1..k -> S] : k \in 0..n}

\* the limits the listings are called with: the default, one item, and too many
Limits == {0, 1, 60}

\* GetSpotifyArtistAlbums lines 273-279 and GetDeezerArtistAlbums lines 187-193
WantOf(limit) == IF limit <= 0 THEN 10 ELSE IF limit > 50 THEN 50 ELSE limit

\* GetAppleArtistAlbums lines 241-243
AppleLimitOf(limit) == IF limit <= 0 \/ limit > 50 THEN 10 ELSE limit

\* items of a Spotify albums response: one release "a" listed with a date,
\* without one and with a later one; "b", of the same day and the same title
\* in another case; an item without ID; and "c", whose date is no date
SpotifyItems ==
    {[ID |-> <<97>>, Name |-> <<72, 105, 116>>, ReleaseDate |-> <<50, 48, 50, 48, 45, 48, 50, 45, 50, 57>>],
     [ID |-> <<97>>, Name |-> <<72, 105, 116>>, ReleaseDate |-> <<>>],
     [ID |-> <<97>>, Name |-> <<72, 105, 116>>, ReleaseDate |-> <<50, 48, 50, 49>>],
     [ID |-> <<98>>, Name |-> <<104, 105, 116>>, ReleaseDate |-> <<50, 48, 50, 48, 45, 48, 50, 45, 50, 57, 84, 49, 48, 58, 48, 48, 58, 48, 48, 90>>],
     [ID |-> <<>>, Name |-> <<83, 111, 108, 111>>, ReleaseDate |-> <<50, 48, 50, 50, 45, 48, 49>>],
     [ID |-> <<99>>, Name |-> <<65, 108, 112, 104, 97>>, ReleaseDate |-> <<50, 48, 50, 49, 45, 48, 50, 45, 50, 57>>]}

\* GetSpotifyArtistAlbums lines 301-317: merge by ID
RECURSIVE MergeByID(_, _, _)
MergeByID(items, i, byID) ==
    IF i > Len(items) THEN byID
    ELSE LET a == items[i]
         IN  IF a.ID = <<>> THEN MergeByID(items, i + 1, byID)
             ELSE IF a.ID \in DOMAIN byID
             THEN LET da == ParseSpotifyReleaseDate(a.ReleaseDate)
                      de == ParseSpotifyReleaseDate(byID[a.ID].ReleaseDate)
                  IN  IF da.ok /\ (~de.ok \/ TimeAfter(da, de))
                      THEN MergeByID(items, i + 1, [byID EXCEPT ![a.ID] = a])
                      ELSE MergeByID(items, i + 1, byID)
             ELSE MergeByID(items, i + 1,
                            [k \in DOMAIN byID \cup {a.ID} |->
                                IF k = a.ID THEN a ELSE byID[k]])

\* the orders in which "for _, a := range byID" can visit the keys
KeyOrders(byID) ==
    {o \in [1..Cardinality(DOMAIN byID) -> DOMAIN byID] :
        \A i, j \in DOMAIN o : i # j => o[i] # o[j]}

\* GetSpotifyArtistAlbums lines 301-350, for the items of the response and
\* the order in which the map is ranged over
SpotifyAlbums(items, order, limit) ==
    LET byID == MergeByID(items, 1, <<>>)
        merged == [i \in 1..Len(order) |-> byID[order[i]]]
    IN  Truncate(SliceStable("spotify", merged), WantOf(limit))

\* results of an iTunes lookup: collection 1 twice (the two differ in their
\* track count only), collection 2 of the same day two hours earlier with the
\* same title in another case, collection 3 with a plain date, an item with
\* no ID, and the artist wrapper
AppleItems ==
    {[CollectionID |-> 1, CollectionName |-> <<72, 105, 116>>, TrackCount |-> 10,
      ReleaseDate |-> <<50, 48, 50, 48, 45, 48, 50, 45, 50, 57, 84, 49, 48, 58, 48, 48, 58, 48, 48, 90>>, WrapperType |-> "collection",
      CollectionType |-> <<65, 108, 98, 117, 109>>],
     [CollectionID |-> 1, CollectionName |-> <<72, 105, 116>>, TrackCount |-> 12,
      ReleaseDate |-> <<50, 48, 50, 48, 45, 48, 50, 45, 50, 57, 84, 49, 48, 58, 48, 48, 58, 48, 48, 90>>, WrapperType |-> "collection",
      CollectionType |-> <<65, 108, 98, 117, 109>>],
     [CollectionID |-> 2, CollectionName |-> <<104, 105, 116>>, TrackCount |-> 10,
      ReleaseDate |-> <<50, 48, 50, 48, 45, 48, 50, 45, 50, 57, 84, 48, 56, 58, 48, 48, 58, 48, 48, 90>>, WrapperType |-> "collection",
      CollectionType |-> <<>>],
     [CollectionID |-> 3, CollectionName |-> <<65, 108, 112, 104, 97>>, TrackCount |-> 1,
      ReleaseDate |-> <<50, 48, 50, 48, 45, 48, 50, 45, 50, 57>>, WrapperType |-> "collection",
      CollectionType |-> <<83, 105, 110, 103, 108, 101>>],
     [CollectionID |-> 0, CollectionName |-> <<90, 101, 114, 111>>, TrackCount |-> 1,
      ReleaseDate |-> <<>>, WrapperType |-> "collection",
      CollectionType |-> <<65, 108, 98, 117, 109>>],
     [CollectionID |-> 4, CollectionName |-> <<66, 97, 110, 100>>, TrackCount |-> 0,
      ReleaseDate |-> <<>>, WrapperType |-> "artist", CollectionType |-> <<>>]}

\* GetAppleArtistAlbums lines 263-273: the items that are kept
AppleKept(it) ==
    /\ it.WrapperType = "collection"
    /\ ~(ToLower(TrimSpace(it.CollectionType)) # <<97, 108, 98, 117, 109>> /\ it.CollectionType # <<>>)
    /\ ~(it.CollectionID <= 0 \/ TrimSpace(it.CollectionName) = <<>>)

\* GetAppleArtistAlbums lines 275-285: the album made of a kept item
AppleAlbumOf(it) ==
    [CollectionID |-> it.CollectionID, CollectionName |-> it.CollectionName,
     CollectionType |-> it.CollectionType, ReleaseDate |-> it.ReleaseDate,
     TrackCount |-> it.TrackCount]

\* GetAppleArtistAlbums lines 257-311
AppleAlbums(results, limit) ==
    LET kept == SelectSeq(results, AppleKept)
        albums == [i \in 1..Len(kept) |-> AppleAlbumOf(kept[i])]
    IN  Truncate(SliceStable("apple", albums), AppleLimitOf(limit))

\* albums of a Deezer listing: album 1 without and with a date, album 2 of
\* the same day with the same title in another case, album 3 with the date
\* Deezer gives when it has none, an item without ID, and albums 2 and 3
\* once more with a later date
DeezerItems ==
    {[ID |-> 1, Title |-> <<72, 105, 116>>, ReleaseDate |-> <<>>, RecordType |-> <<>>],
     [ID |-> 1, Title |-> <<72, 105, 116>>, ReleaseDate |-> <<50, 48, 50, 48, 45, 48, 50, 45, 50, 57>>,
      RecordType |-> <<97, 108, 98, 117, 109>>],
     [ID |-> 2, Title |-> <<104, 105, 116>>, ReleaseDate |-> <<50, 48, 50, 48, 45, 48, 50, 45, 50, 57>>,
      RecordType |-> <<115, 105, 110, 103, 108, 101>>],
     [ID |-> 3, Title |-> <<>>, ReleaseDate |-> <<48, 48, 48, 48, 45, 48, 48, 45, 48, 48>>, RecordType |-> <<>>],
     [ID |-> 0, Title |-> <<90, 101, 114, 111>>, ReleaseDate |-> <<50, 48, 50, 50, 45, 48, 49, 45, 48, 49>>,
      RecordType |-> <<>>],
     [ID |-> 2, Title |-> <<104, 105, 116>>, ReleaseDate |-> <<50, 48, 50, 49, 45, 48, 53, 45, 49, 55>>,
      RecordType |-> <<115, 105, 110, 103, 108, 101>>],
     [ID |-> 3, Title |-> <<>>, ReleaseDate |-> <<50, 48, 50, 49, 45, 48, 53, 45, 49, 55>>, RecordType |-> <<101, 112>>]}

MaxListing == 2

\* deezerGetJSON of one listing pass: an error, or the albums of the page
DeezerListings ==
    [kind : {"error"}, data : {<<>>}]
        \cup [kind : {"ok"}, data : ListsOf(DeezerItems, MaxListing)]

\* GetDeezerAlbum: an error (also for an album without ID), or the album
DeezerFulls ==
    [kind : {"error"}, ReleaseDate : {<<>>}, RecordType : {<<>>}, Title : {<<>>}]
        \cup [kind : {"ok"}, ReleaseDate : {<<>>, <<50, 48, 50, 49, 45, 48, 53, 45, 49, 55>>},
              RecordType : {<<101, 112>>}, Title : {<<70, 117, 108, 108>>}]

\* []string{"", "single", "ep", "album"}
recordTypes == <<"", "single", "ep", "album">>

\* GetDeezerArtistAlbums lines 217-232: one page merged into ordered
RECURSIVE MergeListing(_, _, _)
MergeListing(data, i, ordered) ==
    IF i > Len(data) THEN ordered
    ELSE LET a == data[i]
             at == {idx \in 1..Len(ordered) : ordered[idx].ID = a.ID}
         IN  IF a.ID <= 0 THEN MergeListing(data, i + 1, ordered)
             ELSE IF at # {}
             THEN LET idx == CHOOSE x \in at : TRUE
                      e == ordered[idx]
                      e1 == IF e.ReleaseDate = <<>> /\ a.ReleaseDate # <<>>
                            THEN [e EXCEPT !.ReleaseDate = a.ReleaseDate] ELSE e
                      e2 == IF e1.RecordType = <<>> /\ a.RecordType # <<>>
                            THEN [e1 EXCEPT !.RecordType = a.RecordType] ELSE e1
                  IN  MergeListing(data, i + 1, [ordered EXCEPT ![idx] = e2])
             ELSE MergeListing(data, i + 1, Append(ordered, a))

\* GetDeezerArtistAlbums lines 239-255
CandidateCount(want, len) ==
    LET c1 == want * 6
        c2 == IF c1 < 30 THEN 30 ELSE c1
        c3 == IF c2 > 50 THEN 50 ELSE c2
        c4 == IF c3 > len THEN len ELSE c3
    IN  IF c4 < want THEN (IF want > len THEN len ELSE want) ELSE c4

\* GetDeezerArtistAlbums lines 268-301: what a goroutine does to its album
Enriched(a, full) ==
    IF full.kind # "ok" THEN a
    ELSE [a EXCEPT !.ReleaseDate = full.ReleaseDate,
                   !.RecordType = IF a.RecordType = <<>> THEN full.RecordType ELSE @,
                   !.Title = IF a.Title = <<>> THEN full.Title ELSE @]

\* A listing: the provider, where the call stands (pc), the limit it was called
\* with, what it received (input), for Deezer the pass it is in, the albums
\* merged so far and the albums whose goroutine has not finished (pending),
\* and, once it is done, what it returned (out, err).  copies is history: the
\* (ID, release date) pairs of the items the listing has received.
IdleRelease ==
    [pc |-> "idle", provider |-> "none", limit |-> 0, input |-> <<>>, pass |-> 0,
     albums |-> <<>>, pending |-> {}, out |-> <<>>, err |-> FALSE, copies |-> {}]

\* the (ID, release date) pairs of the items of a response
CopiesOf(items) == {<<items[i].ID, items[i].ReleaseDate>> : i \in 1..Len(items)}

ReleaseInit == rel = IdleRelease

\* GetSpotifyArtistAlbums lines 301-350: what it makes of the items of the
\* response (the token and the request before it are the token component's)
ListSpotifyAlbums(items, order, limit) ==
    /\ rel.pc = "idle"
    /\ order \in KeyOrders(MergeByID(items, 1, <<>>))
    /\ rel' = [IdleRelease EXCEPT !.pc = "done", !.provider = "spotify",
                                  !.limit = limit, !.input = items,
                                  !.copies = CopiesOf(items),
                                  !.out = SpotifyAlbums(items, order, limit)]
    /\ UNCHANGED outsideRelease

\* GetAppleArtistAlbums lines 257-311: what it makes of the lookup's results
ListAppleAlbums(results, limit) ==
    /\ rel.pc = "idle"
    /\ rel' = [IdleRelease EXCEPT !.pc = "done", !.provider = "apple",
                                  !.limit = limit, !.input = results,
                                  !.out = AppleAlbums(results, limit)]
    /\ UNCHANGED outsideRelease

\* GetDeezerArtistAlbums lines 183-201
CallDeezerAlbums(limit) ==
    /\ rel.pc = "idle"
    /\ rel' = [IdleRelease EXCEPT !.pc = "listing", !.provider = "deezer",
                                  !.limit = limit, !.pass = 1]
    /\ UNCHANGED outsideRelease

\* GetDeezerArtistAlbums lines 202-257: one pass of the loop over recordTypes
\* and, after the last one, the choice of the albums to look up
DeezerListing(r) ==
    /\ rel.pc = "listing"
    /\ IF r.kind = "error" /\ recordTypes[rel.pass] = ""
       THEN rel' = [rel EXCEPT !.pc = "done", !.err = TRUE, !.albums = <<>>]
       ELSE LET ordered == IF r.kind = "error" THEN rel.albums
                           ELSE MergeListing(r.data, 1, rel.albums)
                count == CandidateCount(WantOf(rel.limit), Len(ordered))
            IN  IF rel.pass < Len(recordTypes)
                THEN rel' = [rel EXCEPT !.pass = @ + 1, !.albums = ordered,
                                        !.copies = @ \cup CopiesOf(r.data)]
                ELSE IF Len(ordered) = 0
                THEN rel' = [rel EXCEPT !.pc = "done", !.albums = <<>>,
                                        !.copies = @ \cup CopiesOf(r.data)]
                ELSE rel' = [rel EXCEPT !.pc = "lookup",
                                        !.albums = SubSeq(ordered, 1, count),
                                        !.pending = 1..count,
                                        !.copies = @ \cup CopiesOf(r.data)]
    /\ UNCHANGED outsideRelease

\* GetDeezerArtistAlbums lines 262-301: the goroutine of album i finishes
DeezerLookup(i, full) ==
    /\ rel.pc = "lookup"
    /\ i \in rel.pending
    /\ rel' = [rel EXCEPT !.albums[i] = Enriched(@, full), !.pending = @ \ {i}]
    /\ UNCHANGED outsideRelease

\* GetDeezerArtistAlbums lines 306-332: after wg.Wait()
DeezerSort ==
    /\ rel.pc = "lookup"
    /\ rel.pending = {}
    /\ rel' = [rel EXCEPT !.pc = "done", !.albums = <<>>,
                          !.out = Truncate(SliceStable("deezer", rel.albums),
                                           WantOf(rel.limit))]
    /\ UNCHANGED outsideRelease

\* the caller has taken the result
TakeReleases ==
    /\ rel.pc = "done"
    /\ rel' = IdleRelease
    /\ UNCHANGED outsideRelease

ReleaseNext ==
    \/ \E items \in ListsOf(SpotifyItems, MaxItems), limit \in Limits :
          \E order \in KeyOrders(MergeByID(items, 1, <<>>)) :
              ListSpotifyAlbums(items, order, limit)
    \/ \E results \in ListsOf(AppleItems, MaxItems), limit \in Limits :
          ListAppleAlbums(results, limit)
    \/ \E limit \in Limits : CallDeezerAlbums(limit)
    \/ \E r \in DeezerListings : DeezerListing(r)
    \/ \E i \in 1..(MaxListing * Len(recordTypes)), full \in DeezerFulls :
          DeezerLookup(i, full)
    \/ DeezerSort
    \/ TakeReleases

(***************************************************************************)
(* Top tracks: GetSpotifyArtistTopTracks (spotify.go), GetDeezerArtistTop- *)
(* Tracks (Deezer client) and GetAppleArtistSongs (apple.go): what they    *)
(* make of the responses they receive.                                     *)
(***************************************************************************)
\* tracks of a Spotify top-tracks response, most popular first
SpotifyTracks ==
    {[ID |-> <<97>>, Name |-> <<72, 105, 116>>, Popularity |-> 9, AlbumReleaseDate |-> <<50, 48, 50, 48, 45, 48, 50, 45, 50, 57>>],
     [ID |-> <<98>>, Name |-> <<97, 108, 112, 104, 97>>, Popularity |-> 5, AlbumReleaseDate |-> <<50, 48, 50, 49>>],
     [ID |-> <<99>>, Name |-> <<66, 101, 116, 97>>, Popularity |-> 1, AlbumReleaseDate |-> <<>>]}

\* tracks of a Deezer top response; a Deezer track carries no date
DeezerTracks ==
    {[ID |-> 1, Title |-> <<72, 105, 116>>, Rank |-> 9],
     [ID |-> 2, Title |-> <<97, 108, 112, 104, 97>>, Rank |-> 5],
     [ID |-> 3, Title |-> <<66, 101, 116, 97>>, Rank |-> 1]}

\* results of an iTunes song lookup: song 1 twice (the two differ in their
\* length only), song 2, which is newer, a video, and a song without ID
AppleSongItems ==
    {[TrackID |-> 1, TrackName |-> <<72, 105, 116>>, TrackTimeMillis |-> 100,
      ReleaseDate |-> <<50, 48, 50, 48, 45, 48, 50, 45, 50, 57, 84, 49, 48, 58, 48, 48, 58, 48, 48, 90>>, WrapperType |-> "track", Kind |-> "song"],
     [TrackID |-> 1, TrackName |-> <<72, 105, 116>>, TrackTimeMillis |-> 200,
      ReleaseDate |-> <<50, 48, 50, 48, 45, 48, 50, 45, 50, 57, 84, 49, 48, 58, 48, 48, 58, 48, 48, 90>>, WrapperType |-> "track", Kind |-> "song"],
     [TrackID |-> 2, TrackName |-> <<97, 108, 112, 104, 97>>, TrackTimeMillis |-> 100,
      ReleaseDate |-> <<50, 48, 50, 49, 45, 48, 49, 45, 48, 49, 84, 48, 48, 58, 48, 48, 58, 48, 48, 90>>, WrapperType |-> "track", Kind |-> "song"],
     [TrackID |-> 3, TrackName |-> <<67, 108, 105, 112>>, TrackTimeMillis |-> 100,
      ReleaseDate |-> <<50, 48, 50, 50, 45, 48, 49, 45, 48, 49, 84, 48, 48, 58, 48, 48, 58, 48, 48, 90>>, WrapperType |-> "track",
      Kind |-> "music-video"],
     [TrackID |-> 0, TrackName |-> <<90, 101, 114, 111>>, TrackTimeMillis |-> 100,
      ReleaseDate |-> <<>>, WrapperType |-> "track", Kind |-> "song"]}

\* spotifyDoJSON, deezerGetJSON, appleDoJSON: an error, or the decoded list
TrackResponses(S) ==
    [kind : {"error"}, data : {<<>>}] \cup [kind : {"ok"}, data : ListsOf(S, MaxItems)]

\* GetSpotifyArtistTopTracks line 258: return body.Tracks, nil
SpotifyTopTracks(tracks) == tracks

\* GetDeezerArtistTopTracks line 180: return payload.Data, nil
DeezerTopTracks(data) == data

\* GetAppleArtistSongs lines 341-347: the items that are kept
AppleSongKept(it) ==
    /\ ~(it.WrapperType # "track" \/ it.Kind # "song")
    /\ ~(it.TrackID <= 0 \/ TrimSpace(it.TrackName) = <<>>)

\* GetAppleArtistSongs lines 349-359: the track made of a kept item
AppleTrackOf(it) ==
    [TrackID |-> it.TrackID, TrackName |-> it.TrackName,
     TrackTimeMillis |-> it.TrackTimeMillis, ReleaseDate |-> it.ReleaseDate]

\* GetAppleArtistSongs lines 335-384
AppleSongs(results, limit) ==
    LET kept == SelectSeq(results, AppleSongKept)
        tracks == [i \in 1..Len(kept) |-> AppleTrackOf(kept[i])]
    IN  Truncate(SliceStable("appleSongs", tracks), AppleLimitOf(limit))

\* what a top-tracks operation returns for a response r
TopTracksOf(provider, r, limit) ==
    CASE provider = "spotify" -> SpotifyTopTracks(r)
      [] provider = "deezer" -> DeezerTopTracks(r)
      [] provider = "apple" -> AppleSongs(r, limit)

\* A top-tracks call: the provider, the limit it was called with, the tracks
\* of the response (input) and, once it is done, what it returned (out, err).
IdleTracks ==
    [pc |-> "idle", provider |-> "none", limit |-> 0, input |-> <<>>,
     out |-> <<>>, err |-> FALSE]

TracksInit == trk = IdleTracks

\* GetSpotifyArtistTopTracks lines 253-258, GetDeezerArtistTopTracks lines
\* 175-180, GetAppleArtistSongs lines 330-384: the response arrives
TracksReturned(provider, r, limit) ==
    IF r.kind = "error"
    THEN [IdleTracks EXCEPT !.pc = "done", !.provider = provider,
                            !.limit = limit, !.err = TRUE]
    ELSE [IdleTracks EXCEPT !.pc = "done", !.provider = provider,
                            !.limit = limit, !.input = r.data,
                            !.out = TopTracksOf(provider, r.data, limit)]

\* GetSpotifyArtistTopTracks lines 253-258 (it takes no limit)
ListSpotifyTopTracks(r) ==
    /\ trk.pc = "idle"
    /\ trk' = TracksReturned("spotify", r, 0)
    /\ UNCHANGED outsideTracks

\* GetDeezerArtistTopTracks lines 175-180
ListDeezerTopTracks(r, limit) ==
    /\ trk.pc = "idle"
    /\ trk' = TracksReturned("deezer", r, limit)
    /\ UNCHANGED outsideTracks

\* GetAppleArtistSongs lines 330-384
ListAppleSongs(r, limit) ==
    /\ trk.pc = "idle"
    /\ trk' = TracksReturned("apple", r, limit)
    /\ UNCHANGED outsideTracks

\* the caller has taken the result
TakeTracks ==
    /\ trk.pc = "done"
    /\ trk' = IdleTracks
    /\ UNCHANGED outsideTracks

TracksNext ==
    \/ \E r \in TrackResponses(SpotifyTracks) : ListSpotifyTopTracks(r)
    \/ \E r \in TrackResponses(DeezerTracks), limit \in Limits :
          ListDeezerTopTracks(r, limit)
    \/ \E r \in TrackResponses(AppleSongItems), limit \in Limits :
          ListAppleSongs(r, limit)
    \/ TakeTracks

(***************************************************************************)
(* ParseSpotifyReleaseDate applied to release_date strings.                *)
(***************************************************************************)
\* n written with two and with four digits
Digits2(n) == <<48 + (n \div 10), 48 + (n % 10)>>

Digits4(n) == Digits2(n \div 100) \o Digits2(n % 100)

DateYears == {1999, 2000, 2024}

DateMonths == {1, 2, 6, 12}

DateDays == {1, 29, 31}

\* the days that exist
ValidDays ==
    {ymd \in DateYears \X DateMonths \X DateDays : ymd[3] <= DaysIn(ymd[1], ymd[2])}

\* yyyy-mm-dd
DayText(y, m, d) == Digits4(y) \o <<45>> \o Digits2(m) \o <<45>> \o Digits2(d)

\* the clock, fraction and zone of the timestamps
Clocks == {<<84, 48, 48, 58, 48, 48, 58, 48, 48>>, <<84, 49, 50, 58, 51, 52, 58, 53, 54>>, <<84, 50, 51, 58, 53, 57, 58, 53, 57>>}

Fractions == {<<>>, <<46, 49, 50, 51>>, <<46, 48, 48, 48, 48, 48, 48, 48, 48, 49>>}

Zones == {<<90>>, <<43, 48, 50, 58, 48, 48>>, <<45, 48, 53, 58, 48, 48>>}

\* The strings ParseSpotifyReleaseDate is given, each with what it is: a year,
\* a year and month, a day, a timestamp of a day, a blank string, or a string
\* that is none of these (a month or day that does not exist, a date without
\* leading zeros, a word, a date within blanks).
DateInputs ==
    {[form |-> "year", y |-> y, m |-> 1, d |-> 1, text |-> Digits4(y)] : y \in DateYears}
    \cup {[form |-> "month", y |-> y, m |-> m, d |-> 1,
           text |-> Digits4(y) \o <<45>> \o Digits2(m)] :
              y \in DateYears, m \in DateMonths}
    \cup {[form |-> "day", y |-> ymd[1], m |-> ymd[2], d |-> ymd[3],
           text |-> DayText(ymd[1], ymd[2], ymd[3])] : ymd \in ValidDays}
    \cup {[form |-> "timestamp", y |-> ymd[1], m |-> ymd[2], d |-> ymd[3],
           text |-> DayText(ymd[1], ymd[2], ymd[3]) \o c \o f \o z] :
              ymd \in ValidDays, c \in Clocks, f \in Fractions, z \in Zones}
    \cup {[form |-> "blank", y |-> 0, m |-> 0, d |-> 0, text |-> t] :
              t \in {<<>>, <<32>>, <<32, 32, 32>>, <<9, 10>>}}
    \cup {[form |-> "other", y |-> 0, m |-> 0, d |-> 0, text |-> t] :
              t \in {<<50, 48, 50, 52, 45, 49, 51>>, <<50, 48, 50, 51, 45, 48, 50, 45, 50, 57>>, <<50, 48, 50, 52, 45, 54, 45, 49>>, <<115, 111, 111, 110>>,
                     <<32, 50, 48, 50, 52, 45, 48, 54, 45, 48, 49, 32>>, <<50, 48, 50, 52, 45, 48, 54, 45, 48, 49, 84, 50, 53, 58, 48, 48, 58, 48, 48, 90>>, <<50, 48, 50, 52, 48, 54, 48, 49>>}}

\* A call of ParseSpotifyReleaseDate: the string it was given (in) and, once
\* it has returned, the (time, ok) it returned (out).
IdleParse ==
    [pc |-> "idle", in |-> [form |-> "none", y |-> 0, m |-> 0, d |-> 0, text |-> <<>>],
     out |-> NoTime]

ParseInit == pd = IdleParse

\* ParseSpotifyReleaseDate lines 354-387
CallParseSpotifyReleaseDate(input) ==
    /\ pd.pc = "idle"
    /\ pd' = [pc |-> "done", in |-> input, out |-> ParseSpotifyReleaseDate(input.text)]
    /\ UNCHANGED outsideParse

\* the caller has taken the result
TakeParsed ==
    /\ pd.pc = "done"
    /\ pd' = IdleParse
    /\ UNCHANGED outsideParse

ParseNext ==
    \/ \E input \in DateInputs : CallParseSpotifyReleaseDate(input)
    \/ TakeParsed

(***************************************************************************)
(* Search: buildSpotifyData, buildDeezerData, buildAppleData (artists.go)  *)
(* and the searches they call: SearchSpotifyArtists, SearchDeezerArtists,  *)
(* SearchAppleArtists and SearchAppleArtistsWithArtwork, which home.go     *)
(* calls directly as well.                                                 *)
(***************************************************************************)
SearchProviders == {"spotify", "deezer", "apple"}

\* the q of a request, or the query of a direct call
SearchQueries == {<<>>, <<32, 32>>, <<81, 117, 101, 101, 110>>, <<32, 113, 32>>}

\* the sort of a request
SortParams ==
    {<<>>, <<114, 101, 108, 101, 118, 97, 110, 99, 101>>, <<110, 101, 119, 101, 115, 116>>, <<32, 102, 111, 108, 108, 111, 119, 101, 114, 115, 95, 100, 101, 115, 99>>, <<102, 111, 108, 108, 111, 119, 101, 114, 115, 95, 97, 115, 99>>,
     <<108, 105, 115, 116, 101, 110, 101, 114, 115, 95, 97, 115, 99>>, <<108, 105, 115, 116, 101, 110, 101, 114, 115, 95, 100, 101, 115, 99>>, <<102, 97, 110, 115, 95, 97, 115, 99>>, <<102, 97, 110, 115, 95, 100, 101, 115, 99>>,
     <<97, 108, 98, 117, 109, 115, 95, 97, 115, 99>>, <<97, 108, 98, 117, 109, 115, 95, 100, 101, 115, 99>>, <<110, 97, 109, 101, 95, 97, 115, 99>>, <<110, 97, 109, 101, 95, 100, 101, 115, 99>>}

\* buildSpotifyData lines 374-380, buildDeezerData lines 458-463,
\* buildAppleData lines 518-523: the query the handler searches for
HandlerQuery(raw) ==
    LET query == TrimSpace(raw)
    IN  IF query = <<>> THEN <<97>> ELSE query

\* a search that sends the trimmed query as it is
SearchTermNoDefault(query) == TrimSpace(query)

\* SearchSpotifyArtists lines 186-191, SearchDeezerArtists lines 131-137,
\* SearchAppleArtists lines 123-130: the q (term) parameter of the request
SearchTerm(query) ==
    LET q == TrimSpace(query)
    IN  IF q = <<>> THEN <<97>> ELSE q

\* artists of a Spotify search response; Followers is a pointer
SpotifyArtists ==
    {[ID |-> <<97>>, Name |-> <<81, 117, 101, 101, 110>>, HasFollowers |-> TRUE, Total |-> 5],
     [ID |-> <<98>>, Name |-> <<65, 98, 98, 97>>, HasFollowers |-> TRUE, Total |-> 5],
     [ID |-> <<99>>, Name |-> <<77, 117, 115, 101>>, HasFollowers |-> FALSE, Total |-> 0]}

\* artists of a Deezer search response
DeezerArtists ==
    {[ID |-> 1, Name |-> <<81, 117, 101, 101, 110>>, NbFan |-> 5, NbAlbum |-> 2, Radio |-> TRUE],
     [ID |-> 2, Name |-> <<65, 98, 98, 97>>, NbFan |-> 5, NbAlbum |-> 3, Radio |-> FALSE],
     [ID |-> 3, Name |-> <<77, 117, 115, 101>>, NbFan |-> 1, NbAlbum |-> 2, Radio |-> TRUE]}

\* results of an iTunes artist search: two artists, a hit without ID and a
\* hit without name
AppleHits ==
    {[ArtistID |-> 1, ArtistName |-> <<81, 117, 101, 101, 110>>, PrimaryGenreName |-> <<82, 111, 99, 107>>],
     [ArtistID |-> 2, ArtistName |-> <<97, 98, 98, 97>>, PrimaryGenreName |-> <<80, 111, 112>>],
     [ArtistID |-> 0, ArtistName |-> <<90, 101, 114, 111>>, PrimaryGenreName |-> <<>>],
     [ArtistID |-> 3, ArtistName |-> <<32>>, PrimaryGenreName |-> <<80, 111, 112>>]}

MaxResults == 2

\* the limit of a call of SearchAppleArtistsWithArtwork: home.go line 353
\* passes 24, buildAppleData line 525 passes 30
SearchLimits == {0, 1, 24}

\* the answer to a search request: an error, or the list of the response
SearchResponses(provider) ==
    [kind : {"error"}, data : {<<>>}]
        \cup [kind : {"ok"},
              data : ListsOf(CASE provider = "spotify" -> SpotifyArtists
                               [] provider = "deezer" -> DeezerArtists
                               [] provider = "apple" -> AppleHits, MaxResults)]

\* what a worker of the fan-out obtains: FetchArtistMonthlyListeners gives
\* an error or a count, GetAppleArtistArtwork an error or a URL
Enrichments ==
    [kind : {"error"}, listeners : {0}, url : {<<>>}]
        \cup [kind : {"ok"}, listeners : {7}, url : {<<97, 114, 116>>}]

\* SearchAppleArtists lines 150-153: the hits that are kept
AppleHitKept(a) == ~(a.ArtistID <= 0 \/ TrimSpace(a.ArtistName) = <<>>)

\* SearchAppleArtistsWithArtwork lines 162-164
AppleSearchLimitOf(limit) == IF limit <= 0 \/ limit > 50 THEN 30 ELSE limit

\* SearchAppleArtists lines 143-157 and SearchAppleArtistsWithArtwork lines
\* 174-182: the entries whose artwork is looked up
AppleEntries(results, limit) ==
    LET artists == Truncate(SelectSeq(results, AppleHitKept), AppleSearchLimitOf(limit))
    IN  [i \in 1..Len(artists) |-> [Artist |-> artists[i], ArtworkURL |-> <<>>]]

\* views filled from the last result to the first
SpotifyViewsReversed(results) ==
    [i \in 1..Len(results) |->
        [Artist |-> results[Len(results) + 1 - i],
         Followers |-> IF results[Len(results) + 1 - i].HasFollowers
                       THEN results[Len(results) + 1 - i].Total ELSE 0,
         MonthlyListeners |-> 0]]

\* buildSpotifyData lines 387-393
SpotifyViews(results) ==
    [i \in 1..Len(results) |->
        [Artist |-> results[i],
         Followers |-> IF results[i].HasFollowers THEN results[i].Total ELSE 0,
         MonthlyListeners |-> 0]]

\* buildDeezerData lines 470-476
DeezerViews(results) ==
    [i \in 1..Len(results) |->
        [Artist |-> results[i], Fans |-> results[i].NbFan,
         Albums |-> results[i].NbAlbum, HasRadio |-> results[i].Radio]]

\* buildAppleData lines 530-535
AppleViews(results) ==
    [i \in 1..Len(results) |->
        [Artist |-> results[i].Artist, Genre |-> results[i].Artist.PrimaryGenreName,
         ImageURL |-> results[i].ArtworkURL]]

\* the less functions of the sort.Slice calls of buildSpotifyData (lines
\* 421-437), buildDeezerData (482-498) and buildAppleData (541-549)
ViewLess(sortParam, a, b) ==
    CASE sortParam = <<102, 111, 108, 108, 111, 119, 101, 114, 115, 95, 97, 115, 99>> -> a.Followers < b.Followers
      [] sortParam = <<102, 111, 108, 108, 111, 119, 101, 114, 115, 95, 100, 101, 115, 99>> -> a.Followers > b.Followers
      [] sortParam = <<108, 105, 115, 116, 101, 110, 101, 114, 115, 95, 97, 115, 99>> -> a.MonthlyListeners < b.MonthlyListeners
      [] sortParam = <<108, 105, 115, 116, 101, 110, 101, 114, 115, 95, 100, 101, 115, 99>> -> a.MonthlyListeners > b.MonthlyListeners
      [] sortParam = <<102, 97, 110, 115, 95, 97, 115, 99>> -> a.Fans < b.Fans
      [] sortParam = <<102, 97, 110, 115, 95, 100, 101, 115, 99>> -> a.Fans > b.Fans
      [] sortParam = <<97, 108, 98, 117, 109, 115, 95, 97, 115, 99>> -> a.Albums < b.Albums
      [] sortParam = <<97, 108, 98, 117, 109, 115, 95, 100, 101, 115, 99>> -> a.Albums > b.Albums
      [] sortParam = <<110, 97, 109, 101, 95, 97, 115, 99>> ->
            StrLess(ToLower(a.Artist.ArtistName), ToLower(b.Artist.ArtistName))
      [] sortParam = <<110, 97, 109, 101, 95, 100, 101, 115, 99>> ->
            StrLess(ToLower(b.Artist.ArtistName), ToLower(a.Artist.ArtistName))

\* sort.Slice on a slice of fewer than 12 elements is an insertion sort
RECURSIVE InsertView(_, _, _, _)
InsertView(sortParam, sorted, x, i) ==
    IF i > Len(sorted) THEN Append(sorted, x)
    ELSE IF ViewLess(sortParam, x, sorted[i])
         THEN SubSeq(sorted, 1, i - 1) \o <<x>> \o SubSeq(sorted, i, Len(sorted))
         ELSE InsertView(sortParam, sorted, x, i + 1)

RECURSIVE SortSliceFrom(_, _, _, _)
SortSliceFrom(sortParam, s, i, sorted) ==
    IF i > Len(s) THEN sorted
    ELSE SortSliceFrom(sortParam, s, i + 1, InsertView(sortParam, sorted, s[i], 1))

\* the sort options a provider's page knows
SortOptions(provider) ==
    CASE provider = "spotify" ->
            {<<102, 111, 108, 108, 111, 119, 101, 114, 115, 95, 97, 115, 99>>, <<102, 111, 108, 108, 111, 119, 101, 114, 115, 95, 100, 101, 115, 99>>, <<108, 105, 115, 116, 101, 110, 101, 114, 115, 95, 97, 115, 99>>, <<108, 105, 115, 116, 101, 110, 101, 114, 115, 95, 100, 101, 115, 99>>}
      [] provider = "deezer" ->
            {<<102, 97, 110, 115, 95, 97, 115, 99>>, <<102, 97, 110, 115, 95, 100, 101, 115, 99>>, <<97, 108, 98, 117, 109, 115, 95, 97, 115, 99>>, <<97, 108, 98, 117, 109, 115, 95, 100, 101, 115, 99>>}
      [] provider = "apple" -> {<<110, 97, 109, 101, 95, 97, 115, 99>>, <<110, 97, 109, 101, 95, 100, 101, 115, 99>>}

\* the switch on sortParam: buildSpotifyData lines 416-441, buildDeezerData
\* lines 478-502, buildAppleData lines 537-553
SortedViews(provider, sortParam, views) ==
    IF sortParam \in SortOptions(provider)
    THEN SortSliceFrom(sortParam, views, 1, <<>>)
    ELSE views

\* A search: the provider, whether a handler makes it for a page or home.go
\* calls the search directly (direct), the q and the sort of the request, the
\* query parameter sent upstream (sent), the list the upstream returned
\* (upstream), the limit of an Apple search, the entries being enriched
\* (views), the entries whose worker
\* has not finished (pending), and, once it is done, the outcome (out, err).
IdleSearch ==
    [pc |-> "idle", provider |-> "none", direct |-> FALSE, query |-> <<>>,
     sort |-> <<>>, limit |-> 0, sent |-> <<>>, upstream |-> <<>>,
     views |-> <<>>, pending |-> {}, out |-> <<>>, err |-> FALSE]

SearchInit == sr = IdleSearch

\* buildSpotifyData lines 374-382, buildDeezerData lines 458-465,
\* buildAppleData lines 518-525, and the request of the search they call
CallBuildData(provider, q, sortParam) ==
    /\ sr.pc = "idle"
    /\ sr' = [IdleSearch EXCEPT !.pc = "search", !.provider = provider,
                                !.query = q, !.sort = TrimSpace(sortParam),
                                !.limit = IF provider = "apple" THEN 30 ELSE 0,
                                !.sent = SearchTerm(HandlerQuery(q))]
    /\ UNCHANGED outsideSearch

\* SearchSpotifyArtists lines 184-197, SearchDeezerArtists lines 131-140,
\* SearchAppleArtists lines 123-139, called with a query of the caller's;
\* SearchAppleArtistsWithArtwork takes a limit too
CallSearchArtists(provider, query, limit) ==
    /\ sr.pc = "idle"
    /\ sr' = [IdleSearch EXCEPT !.pc = "search", !.provider = provider,
                                !.direct = TRUE, !.query = query,
                                !.limit = IF provider = "apple" THEN limit ELSE 0,
                                !.sent = SearchTerm(query)]
    /\ UNCHANGED outsideSearch

\* the search request is answered: SearchSpotifyArtists lines 202-207 and
\* buildSpotifyData lines 383-412, SearchDeezerArtists lines 139-144 and
\* buildDeezerData lines 466-476, SearchAppleArtists lines 138-157 and
\* SearchAppleArtistsWithArtwork lines 169-198
SearchResponse(r) ==
    /\ sr.pc = "search"
    /\ r \in SearchResponses(sr.provider)
    /\ IF r.kind = "error"
       THEN sr' = [sr EXCEPT !.pc = "done", !.err = TRUE]
       ELSE CASE sr.provider = "spotify" /\ sr.direct ->
                    sr' = [sr EXCEPT !.pc = "done", !.upstream = r.data, !.out = r.data]
              [] sr.provider = "spotify" /\ ~sr.direct ->
                    sr' = [sr EXCEPT !.pc = "enrich", !.upstream = r.data,
                                     !.views = SpotifyViews(r.data),
                                     !.pending = 1..Len(r.data)]
              [] sr.provider = "deezer" /\ sr.direct ->
                    sr' = [sr EXCEPT !.pc = "done", !.upstream = r.data, !.out = r.data]
              [] sr.provider = "deezer" /\ ~sr.direct ->
                    sr' = [sr EXCEPT !.pc = "enrich", !.upstream = r.data,
                                     !.views = DeezerViews(r.data)]
              [] sr.provider = "apple" ->
                    sr' = [sr EXCEPT !.pc = "enrich", !.upstream = r.data,
                                     !.views = AppleEntries(r.data, sr.limit),
                                     !.pending = 1..Len(AppleEntries(r.data, sr.limit))]
    /\ UNCHANGED outsideSearch

\* buildSpotifyData lines 401-411 and SearchAppleArtistsWithArtwork lines
\* 190-197: the worker of entry i finishes
EnrichEntry(i, e) ==
    /\ sr.pc = "enrich"
    /\ i \in sr.pending
    /\ sr' = [sr EXCEPT
                !.views[i] = IF sr.provider = "spotify"
                             THEN [@ EXCEPT !.MonthlyListeners =
                                      IF e.kind = "error" THEN 0 ELSE e.listeners]
                             ELSE [@ EXCEPT !.ArtworkURL =
                                      IF e.kind = "error" THEN <<>> ELSE e.url],
                !.pending = @ \ {i}]
    /\ UNCHANGED outsideSearch

\* after wg.Wait(): buildSpotifyData lines 414-453, buildDeezerData lines
\* 478-513, SearchAppleArtistsWithArtwork lines 200-201 and buildAppleData
\* lines 530-564
FinishSearch ==
    /\ sr.pc = "enrich"
    /\ sr.pending = {}
    /\ sr' = [sr EXCEPT
                !.pc = "done", !.views = <<>>,
                !.out = IF sr.direct THEN sr.views
                        ELSE SortedViews(sr.provider, sr.sort,
                                         IF sr.provider = "apple"
                                         THEN AppleViews(sr.views) ELSE sr.views)]
    /\ UNCHANGED outsideSearch

\* the caller has taken the result
TakeSearch ==
    /\ sr.pc = "done"
    /\ sr' = IdleSearch
    /\ UNCHANGED outsideSearch

SearchNext ==
    \/ \E provider \in SearchProviders, q \in SearchQueries, sortParam \in SortParams :
          CallBuildData(provider, q, sortParam)
    \/ \E provider \in SearchProviders, query \in SearchQueries,
          limit \in SearchLimits :
          CallSearchArtists(provider, query, limit)
    \/ \E provider \in SearchProviders : \E r \in SearchResponses(provider) :
          SearchResponse(r)
    \/ \E i \in 1..MaxResults, e \in Enrichments : EnrichEntry(i, e)
    \/ FinishSearch
    \/ TakeSearch

(***************************************************************************)
(* Artist detail pages: ArtistDetailHandler and handleGroupieArtistDetail, *)
(* handleSpotifyArtistDetail, handleDeezerArtistDetail and                 *)
(* handleAppleArtistDetail (artist_detail.go).  The page files are in      *)
(* place: template.ParseFiles and ExecuteTemplate succeed.                 *)
(***************************************************************************)
DetailSources == {"groupie", "spotify", "deezer", "apple"}

\* the last segment of the request path: two numbers, a word, and two
\* Spotify IDs
IdSegments ==
    {<<50, 55>>, <<52, 48, 52>>, <<120>>, <<48, 84, 110, 79, 89, 73, 83, 98, 100, 49, 88, 89, 82, 66, 107, 57, 109, 121, 97, 115, 101, 103>>, <<54, 111, 108, 69, 54, 84, 74, 76, 113, 69, 68, 51, 114, 113, 68, 52, 48, 52, 116, 81, 101, 103>>}

\* isLikelySpotifyID lines 606-623
isLikelySpotifyID(s) ==
    /\ Len(s) = 22
    /\ \A i \in 1..Len(s) : s[i] \in (97..122) \cup (65..90) \cup (48..57)

\* strconv.Atoi succeeds (on the segments above, which carry no sign) and
\* the number is positive: lines 93-94, 368-369, 484-485
IsPositiveNumber(s) == Len(s) > 0 /\ IsDigits(s) /\ DigitsValue(s) > 0

\* the segment is an ID of the source, otherwise the handler redirects
ValidID(source, idSegment) ==
    IF source = "spotify" THEN isLikelySpotifyID(idSegment)
    ELSE IsPositiveNumber(idSegment)

\* How the primary lookup of the artist ends: it succeeds; the request times
\* out; the host cannot be resolved; the upstream answers 404 or 500; the
\* body is not JSON; the answer is well-formed but holds no such artist
\* (FetchArtistByID line 88, GetDeezerArtist lines 157-159, GetAppleArtist
\* line 233); Deezer answers with an error object.
PrimaryOutcomes(source) ==
    CASE source = "groupie" -> {"ok", "timeout", "nohost", "badjson", "missing"}
      [] source = "spotify" ->
            {"ok", "timeout", "nohost", "status404", "status500", "badjson"}
      [] source = "deezer" ->
            {"ok", "timeout", "nohost", "status404", "status500", "badjson",
             "missing", "nodata"}
      [] source = "apple" ->
            {"ok", "timeout", "nohost", "status404", "status500", "badjson", "missing"}

\* the URL of the primary lookup: part_017 line 13, spotify.go line 217,
\* part_016 line 153, apple.go lines 210-214
PrimaryURL(source, id) ==
    CASE source = "groupie" -> <<104, 116, 116, 112, 115, 58, 47, 47, 103, 114, 111, 117, 112, 105, 101, 116, 114, 97, 99, 107, 101, 114, 115, 46, 104, 101, 114, 111, 107, 117, 97, 112, 112, 46, 99, 111, 109, 47, 97, 112, 105, 47, 97, 114, 116, 105, 115, 116, 115>>
      [] source = "spotify" -> <<104, 116, 116, 112, 115, 58, 47, 47, 97, 112, 105, 46, 115, 112, 111, 116, 105, 102, 121, 46, 99, 111, 109, 47, 118, 49, 47, 97, 114, 116, 105, 115, 116, 115, 47>> \o id
      [] source = "deezer" -> <<104, 116, 116, 112, 115, 58, 47, 47, 97, 112, 105, 46, 100, 101, 101, 122, 101, 114, 46, 99, 111, 109, 47, 97, 114, 116, 105, 115, 116, 47>> \o id
      [] source = "apple" -> <<104, 116, 116, 112, 115, 58, 47, 47, 105, 116, 117, 110, 101, 115, 46, 97, 112, 112, 108, 101, 46, 99, 111, 109, 47, 108, 111, 111, 107, 117, 112, 63, 105, 100, 61>> \o id

\* the name the clients put before "request failed"
ClientName(source) ==
    CASE source = "spotify" -> <<115, 112, 111, 116, 105, 102, 121>>
      [] source = "deezer" -> <<100, 101, 101, 122, 101, 114>>
      [] source = "apple" -> <<105, 116, 117, 110, 101, 115>>
      [] source = "groupie" -> <<103, 114, 111, 117, 112, 105, 101>>

\* err.Error() of a failed primary lookup: the *url.Error of the HTTP client
\* (which quotes the URL), the status errors of spotifyDoJSON line 113,
\* deezerGetJSON lines 110 and 120, appleDoJSON line 115, the decoder's
\* error, and the errors of the lookups themselves
ErrorText(source, outcome, id) ==
    CASE outcome = "timeout" ->
            <<71, 101, 116, 32, 34>> \o PrimaryURL(source, id) \o
            <<34, 58, 32, 99, 111, 110, 116, 101, 120, 116, 32, 100, 101, 97, 100, 108, 105, 110, 101, 32, 101, 120, 99, 101, 101, 100, 101, 100, 32, 40, 67, 108, 105, 101, 110, 116, 46, 84, 105, 109, 101, 111, 117, 116, 32, 101, 120, 99, 101, 101, 100, 101, 100, 32, 119, 104, 105, 108, 101, 32, 97, 119, 97, 105, 116, 105, 110, 103, 32, 104, 101, 97, 100, 101, 114, 115, 41>>
      [] outcome = "nohost" ->
            <<71, 101, 116, 32, 34>> \o PrimaryURL(source, id) \o <<34, 58, 32, 100, 105, 97, 108, 32, 116, 99, 112, 58, 32, 108, 111, 111, 107, 117, 112, 32, 104, 111, 115, 116, 58, 32, 110, 111, 32, 115, 117, 99, 104, 32, 104, 111, 115, 116>>
      [] outcome = "status404" -> ClientName(source) \o <<32, 114, 101, 113, 117, 101, 115, 116, 32, 102, 97, 105, 108, 101, 100, 58, 32, 52, 48, 52, 32, 78, 111, 116, 32, 70, 111, 117, 110, 100>>
      [] outcome = "status500" ->
            ClientName(source) \o <<32, 114, 101, 113, 117, 101, 115, 116, 32, 102, 97, 105, 108, 101, 100, 58, 32, 53, 48, 48, 32, 73, 110, 116, 101, 114, 110, 97, 108, 32, 83, 101, 114, 118, 101, 114, 32, 69, 114, 114, 111, 114>>
      [] outcome = "badjson" -> <<105, 110, 118, 97, 108, 105, 100, 32, 99, 104, 97, 114, 97, 99, 116, 101, 114, 32, 39, 60, 39, 32, 108, 111, 111, 107, 105, 110, 103, 32, 102, 111, 114, 32, 98, 101, 103, 105, 110, 110, 105, 110, 103, 32, 111, 102, 32, 118, 97, 108, 117, 101>>
      [] outcome = "nodata" -> <<100, 101, 101, 122, 101, 114, 32, 101, 114, 114, 111, 114, 32, 56, 48, 48, 58, 32, 110, 111, 32, 100, 97, 116, 97>>
      [] outcome = "missing" ->
            CASE source = "groupie" -> <<97, 114, 116, 105, 115, 116, 32, 110, 111, 116, 32, 102, 111, 117, 110, 100>>
              [] source = "deezer" -> <<100, 101, 101, 122, 101, 114, 32, 97, 114, 116, 105, 115, 116, 32, 110, 111, 116, 32, 102, 111, 117, 110, 100>>
              [] source = "apple" -> <<97, 112, 112, 108, 101, 32, 97, 114, 116, 105, 115, 116, 32, 110, 111, 116, 32, 102, 111, 117, 110, 100>>

\* isNotFoundError lines 626-641
isNotFoundError(msg) ==
    \/ Contains(ToLower(msg), <<52, 48, 52>>)
    \/ Contains(ToLower(msg), <<110, 111, 116, 32, 102, 111, 117, 110, 100>>)
    \/ Contains(ToLower(msg), <<117, 110, 107, 110, 111, 119, 110, 32, 105, 100>>)
    \/ Contains(ToLower(msg), <<105, 110, 118, 97, 108, 105, 100, 32, 105, 100>>)

\* the status the handler answers a failed primary lookup with: lines
\* 101-104 (Groupie), 242-249, 375-382, 491-498
PrimaryFailureStatus(source, msg) ==
    IF source = "groupie" THEN 404
    ELSE IF isNotFoundError(msg) THEN 404 ELSE 500

\* the fetches a handler makes after the primary lookup, in its order:
\* lines 106-179 (Groupie), 258-291 (Spotify), 390-407 (Deezer), 506-522
SubFetches(source) ==
    CASE source = "groupie" -> <<"relations", "geocode", "wiki">>
      [] source = "spotify" -> <<"wiki", "listeners", "tracks", "albums">>
      [] source = "deezer" -> <<"wiki", "listeners", "tracks", "albums">>
      [] source = "apple" -> <<"wiki", "listeners", "albums", "tracks">>

\* strings.ReplaceAll(s, "_", " ") and, with dashes too, lines 384-385
ReplaceUnderscores(s) == [i \in 1..Len(s) |-> IF s[i] = 95 THEN 32 ELSE s[i]]

ReplaceDashes(s) == [i \in 1..Len(s) |-> IF s[i] = 45 THEN 32 ELSE s[i]]

\* splitLocationKey lines 371-388: the place and the country of a key
splitLocationKey(key) ==
    LET k == TrimSpace(key)
        dashes == {i \in 1..Len(k) : k[i] = 45}
        last == CHOOSE i \in dashes : \A j \in dashes : j <= i
    IN  IF k = <<>> THEN <<<<>>, <<>>>>
        ELSE IF dashes = {} THEN <<ReplaceUnderscores(k), <<>>>>
        ELSE <<ReplaceDashes(ReplaceUnderscores(SubSeq(k, 1, last - 1))),
               ReplaceUnderscores(SubSeq(k, last + 1, Len(k)))>>

\* HumanizeLocationKey lines 306-323
HumanizeLocationKey(key) ==
    LET place == titleWords(splitLocationKey(key)[1])
        c == titleWords(splitLocationKey(key)[2])
        country == IF c = <<85, 115, 97>> THEN <<85, 83, 65>> ELSE IF c = <<85, 107>> THEN <<85, 75>> ELSE c
    IN  IF place = <<>> THEN country
        ELSE IF country = <<>> THEN place
        ELSE place \o <<44, 32>> \o country

\* location keys of a relation
LocationKeys == {<<112, 97, 114, 105, 115, 45, 102, 114, 97, 110, 99, 101>>, <<112, 97, 114, 105, 115, 45, 117, 115, 97>>, <<110, 101, 119, 95, 121, 111, 114, 107, 45, 117, 115, 97>>}

\* the DatesLocations of a relation: the dates of a key
DatesOf(key) == <<key, <<48, 49, 45, 48, 49, 45, 50, 48, 50, 48>>>>

\* what Geocode returns for a location: nothing found, or a place with the
\* name the provider displays (which may be blank) and its latitude
GeoOutcomes ==
    {[ok |-> FALSE, Display |-> <<>>, Lat |-> 0],
     [ok |-> TRUE, Display |-> <<80, 97, 114, 105, 115>>, Lat |-> 48],
     [ok |-> TRUE, Display |-> <<112, 97, 114, 105, 115>>, Lat |-> 33],
     [ok |-> TRUE, Display |-> <<32>>, Lat |-> 40]}

\* sort.Strings(keys), lines 114-118
RECURSIVE SortedKeys(_)
SortedKeys(S) ==
    IF S = {} THEN <<>>
    ELSE LET least == CHOOSE k \in S : \A o \in S : o = k \/ StrLess(k, o)
         IN  <<least>> \o SortedKeys(S \ {least})

maxLocations == 25

\* every key, in order
AllSortedKeys(S) == SortedKeys(S)

\* lines 114-124: the keys that are geocoded
GeocodedKeys(S) == Truncate(SortedKeys(S), maxLocations)

\* lines 143-160: the MapLocation a goroutine appends for its key
MapLocationOf(key, res) ==
    [Name |-> IF TrimSpace(res.Display) = <<>> THEN HumanizeLocationKey(key)
              ELSE res.Display,
     Lat |-> res.Lat, Dates |-> DatesOf(key)]

\* A detail request: the source and the ID segment, where the handler is
\* (pc, and step: the sub-fetch it is at), the outcome of the primary lookup
\* (cause) and the sub-fetches that failed (failed), which are history, the
\* keys being geocoded with the goroutines still running (pending) and what
\* Geocode returned for each (geo, history), the fields of the page, and the
\* status of the response (0 while there is none).
IdleDetail ==
    [pc |-> "idle", source |-> "none", id |-> <<>>, step |-> 0, cause |-> "none",
     failed |-> {}, keys |-> <<>>, pending |-> {}, geo |-> <<>>, locations |-> <<>>,
     wiki |-> FALSE, listeners |-> 0, tracks |-> <<>>, albums |-> <<>>, status |-> 0]

DetailInit == dt = IdleDetail

\* ArtistDetailHandler lines 64-89 and the ID checks of the four handlers
CallDetail(source, idSegment) ==
    /\ dt.pc = "idle"
    /\ dt' = IF ValidID(source, idSegment)
             THEN [IdleDetail EXCEPT !.pc = "primary", !.source = source,
                                     !.id = idSegment]
             ELSE [IdleDetail EXCEPT !.pc = "done", !.source = source,
                                     !.id = idSegment, !.status = 303]
    /\ UNCHANGED outsideDetail

\* lines 100-104, 241-249, 374-382, 490-498: the primary lookup returns
PrimaryResponse(outcome) ==
    /\ dt.pc = "primary"
    /\ outcome \in PrimaryOutcomes(dt.source)
    /\ dt' = IF outcome = "ok"
             THEN [dt EXCEPT !.pc = "fetch", !.step = 1, !.cause = outcome]
             ELSE [dt EXCEPT !.pc = "done", !.cause = outcome,
                             !.status = PrimaryFailureStatus(dt.source,
                                            ErrorText(dt.source, outcome, dt.id))]
    /\ UNCHANGED outsideDetail

\* the page is rendered after the last sub-fetch
AfterStep(d) ==
    IF d.step >= Len(SubFetches(d.source))
    THEN [d EXCEPT !.pc = "done", !.status = 200]
    ELSE [d EXCEPT !.pc = "fetch", !.step = @ + 1]

\* lines 106-124: FetchRelationForArtist returns, with the location keys of
\* the artist or with an error
RelationsFetched(ok, S) ==
    /\ dt.pc = "fetch"
    /\ SubFetches(dt.source)[dt.step] = "relations"
    /\ dt' = IF ~ok
             THEN [dt EXCEPT !.pc = "done", !.failed = @ \cup {"relations"},
                             !.status = 500]
             ELSE [dt EXCEPT !.step = @ + 1, !.keys = GeocodedKeys(S),
                             !.pending = 1..Len(GeocodedKeys(S)),
                             !.geo = [i \in 1..Len(GeocodedKeys(S)) |->
                                         [ok |-> FALSE, Display |-> <<>>, Lat |-> 0]]]
    /\ UNCHANGED outsideDetail

\* lines 138-162: the goroutine of key i gets its answer from Geocode
GeocodeDone(i, res) ==
    /\ dt.pc = "fetch"
    /\ SubFetches(dt.source)[dt.step] = "geocode"
    /\ i \in dt.pending
    /\ dt' = [dt EXCEPT !.pending = @ \ {i},
                        !.geo[i] = res,
                        !.failed = IF res.ok THEN @ ELSE @ \cup {"geocode"},
                        !.locations = IF res.ok
                                      THEN Append(@, MapLocationOf(dt.keys[i], res))
                                      ELSE @]
    /\ UNCHANGED outsideDetail

\* lines 165-170: after wg.Wait() the locations are sorted
LocationsSorted ==
    /\ dt.pc = "fetch"
    /\ SubFetches(dt.source)[dt.step] = "geocode"
    /\ dt.pending = {}
    /\ dt' = AfterStep([dt EXCEPT !.locations = SliceStable("locations", @)])
    /\ UNCHANGED outsideDetail

\* lines 179-180, 258-291, 390-407, 506-522: a fetch of the page's optional
\* parts returns
SubFetched(ok) ==
    /\ dt.pc = "fetch"
    /\ SubFetches(dt.source)[dt.step] \in {"wiki", "listeners", "tracks", "albums"}
    /\ LET name == SubFetches(dt.source)[dt.step]
           d == IF ~ok THEN [dt EXCEPT !.failed = @ \cup {name}]
                ELSE CASE name = "wiki" -> [dt EXCEPT !.wiki = TRUE]
                       [] name = "listeners" -> [dt EXCEPT !.listeners = 7]
                       [] name = "tracks" -> [dt EXCEPT !.tracks = <<1, 2>>]
                       [] name = "albums" -> [dt EXCEPT !.albums = <<1>>]
       IN  dt' = AfterStep(d)
    /\ UNCHANGED outsideDetail

\* the response has been sent
TakeDetail ==
    /\ dt.pc = "done"
    /\ dt' = IdleDetail
    /\ UNCHANGED outsideDetail

DetailNext ==
    \/ \E source \in DetailSources, idSegment \in IdSegments :
          CallDetail(source, idSegment)
    \/ \E source \in DetailSources : \E outcome \in PrimaryOutcomes(source) :
          PrimaryResponse(outcome)
    \/ \E ok \in BOOLEAN, S \in SUBSET LocationKeys : RelationsFetched(ok, S)
    \/ \E i \in 1..Cardinality(LocationKeys), res \in GeoOutcomes : GeocodeDone(i, res)
    \/ LocationsSorted
    \/ \E ok \in BOOLEAN : SubFetched(ok)
    \/ TakeDetail

(***************************************************************************)
(* Upstream requests and their timeouts: how long an operation waits for   *)
(* the upstreams it calls.  Each request is sent with the HTTP client of   *)
(* its provider; a client with a Timeout abandons the request when the     *)
(* time is up, a client without one waits for the answer.                  *)
(***************************************************************************)
\* the clients: http.Get of the Groupie fetches uses http.DefaultClient
\* (part_017 lines 45, 102); spotifyHTTP (spotify.go line 77); the clients
\* of deezerGetJSON (part_016 line 97), appleDoJSON (apple.go line 107), the
\* Last.fm calls (part_007 lines 49, 131), the Wikipedia calls (wiki.go lines
\* 55, 105) and the geocoder (geocode.go line 38)
HTTPClients ==
    {"default", "spotifyHTTP", "deezer", "apple", "lastfm", "wiki", "geocoder"}

\* the Timeout of a client in seconds, 0 for none (the zero value of
\* http.Client.Timeout means no timeout)
ClientTimeout(client) ==
    CASE client = "default" -> 0
      [] client = "spotifyHTTP" -> 8
      [] client = "deezer" -> 8
      [] client = "apple" -> 8
      [] client = "lastfm" -> 5
      [] client = "wiki" -> 5
      [] client = "geocoder" -> 6

\* the operations and the requests each sends one after the other, by
\* client: the token request and the search of SearchSpotifyArtists, the
\* three providers of Geocode, and the fetches of a Groupie detail page
RequestsOf(op) ==
    CASE op = "FetchArtists" -> <<"default">>
      [] op = "FetchRelations" -> <<"default">>
      [] op = "SearchSpotifyArtists" -> <<"spotifyHTTP", "spotifyHTTP">>
      [] op = "SearchDeezerArtists" -> <<"deezer">>
      [] op = "SearchAppleArtists" -> <<"apple">>
      [] op = "FetchArtistMonthlyListeners" -> <<"lastfm">>
      [] op = "FetchWikipediaSummary" -> <<"wiki">>
      [] op = "Geocode" -> <<"geocoder", "geocoder", "geocoder">>
      [] op = "GroupieDetail" -> <<"default", "default", "geocoder", "wiki">>

Operations ==
    {"FetchArtists", "FetchRelations", "SearchSpotifyArtists", "SearchDeezerArtists",
     "SearchAppleArtists", "FetchArtistMonthlyListeners", "FetchWikipediaSummary",
     "Geocode", "GroupieDetail"}

\* the failure of request number step makes the operation return at once:
\* every request of the single-request operations, the token request
\* (getSpotifyToken's error is returned, spotify.go lines 179-182), and the
\* dataset and relations fetches of the detail page (artist_detail.go lines
\* 100-110); Geocode goes on to its next provider and the page to its next
\* fetch
FailureEnds(op, step) ==
    CASE op = "Geocode" -> step = 3
      [] op = "GroupieDetail" -> step \in {1, 2, 4}
      [] OTHER -> TRUE

\* seconds a request without timeout has been waiting are counted up to here
MaxWait == 10

\* An operation in progress: the operation, the number of the request it
\* is waiting for (step), the seconds this request has been out (elapsed),
\* and how the requests ended so far (ended).
IdleRequests ==
    [pc |-> "idle", op |-> "none", step |-> 0, elapsed |-> 0, ended |-> <<>>]

RequestsInit == rq = IdleRequests

\* the request the operation waits for has ended in the given way
AfterRequest(how) ==
    IF (how # "ok" /\ FailureEnds(rq.op, rq.step)) \/ rq.step = Len(RequestsOf(rq.op))
    THEN [rq EXCEPT !.pc = "done", !.elapsed = 0, !.ended = Append(@, how)]
    ELSE [rq EXCEPT !.step = @ + 1, !.elapsed = 0, !.ended = Append(@, how)]

\* an operation is called and sends its first request
CallOperation(op) ==
    /\ rq.pc = "idle"
    /\ rq' = [IdleRequests EXCEPT !.pc = "waiting", !.op = op, !.step = 1]
    /\ UNCHANGED outsideRequests

\* the upstream answers the request, with a usable answer or not
UpstreamAnswers(ok) ==
    /\ rq.pc = "waiting"
    /\ rq' = AfterRequest(IF ok THEN "ok" ELSE "error")
    /\ UNCHANGED outsideRequests

\* a second passes while the request is out
SecondPasses ==
    /\ rq.pc = "waiting"
    /\ LET timeout == ClientTimeout(RequestsOf(rq.op)[rq.step])
       IN  rq.elapsed < (IF timeout = 0 THEN MaxWait ELSE timeout)
    /\ rq' = [rq EXCEPT !.elapsed = @ + 1]
    /\ UNCHANGED outsideRequests

\* the client's Timeout is up: client.Do returns an error
RequestTimesOut ==
    /\ rq.pc = "waiting"
    /\ LET timeout == ClientTimeout(RequestsOf(rq.op)[rq.step])
       IN  timeout > 0 /\ rq.elapsed >= timeout
    /\ rq' = AfterRequest("timeout")
    /\ UNCHANGED outsideRequests

\* the operation has returned
TakeOperation ==
    /\ rq.pc = "done"
    /\ rq' = IdleRequests
    /\ UNCHANGED outsideRequests

RequestsNext ==
    \/ \E op \in Operations : CallOperation(op)
    \/ \E ok \in BOOLEAN : UpstreamAnswers(ok)
    \/ SecondPasses
    \/ RequestTimesOut
    \/ TakeOperation

\* time passes and the timers of the clients fire; nothing makes an upstream
\* answer
RequestsFairness == WF_vars(SecondPasses) /\ WF_vars(RequestTimesOut)

(***************************************************************************)
(* Choice of the best candidate: what geocodeOpenMeteo and                 *)
(* geocodeNominatim make of one response, for queries and candidates that  *)
(* bring out every term of scoreCandidate.                                 *)
(***************************************************************************)
\* a town whose name is one letter away from the query "Pari"
Bari ==
    [name |-> <<66, 97, 114, 105>>, admin1 |-> <<65, 112, 117, 108, 105, 97>>, countryCode |-> <<73, 84>>,
     country |-> <<73, 116, 97, 108, 121>>, latitude |-> 41, longitude |-> 16,
     lat |-> <<52, 49>>, lon |-> <<49, 54>>, displayName |-> <<66, 97, 114, 105, 44, 32, 73, 116, 97, 108, 121>>]

\* a candidate without any name
Nameless ==
    [name |-> <<>>, admin1 |-> <<>>, countryCode |-> <<85, 83>>,
     country |-> <<>>, latitude |-> 34, longitude |-> 18,
     lat |-> <<51, 52>>, lon |-> <<49, 56>>, displayName |-> <<>>]

ScorePlaces == {ParisFrance, ParisTexas, OhioState, Bari, Nameless}

\* the names looked for: an exact name, a prefix, a name of two letters, the
\* name of an administrative region
ScoreQueries == {<<80, 97, 114, 105, 115>>, <<80, 97, 114, 105>>, <<108, 97>>, <<84, 101, 120, 97, 115>>}

ScoreCountryCodes == {<<>>, <<85, 83>>}

\* a response body for the choice
ScoreLists ==
    {cs \in UNION {[1..k -> ScorePlaces] : k \in 1..MaxCandidates} :
        \A i, j \in 1..Len(cs) : i # j => cs[i] # cs[j]}

\* A choice: the provider, the name and country code looked for, the
\* candidates of the response, and what the provider function returned.
IdleChoice ==
    [pc |-> "idle", provider |-> "none", name |-> <<>>, cc |-> <<>>,
     cands |-> <<>>, out |-> NotFound]

ChoiceInit == sc = IdleChoice

\* geocodeOpenMeteo lines 160-201 on a response with these candidates
ChooseOpenMeteo(name, countryCode, cands) ==
    /\ sc.pc = "idle"
    /\ sc' = [pc |-> "done", provider |-> "openmeteo", name |-> name,
              cc |-> countryCode, cands |-> cands,
              out |-> geocodeOpenMeteo(name, countryCode,
                                       [kind |-> "ok", cands |-> cands])]
    /\ UNCHANGED outsideChoice

\* geocodeNominatim lines 250-302 on a response with these candidates
ChooseNominatim(name, countryCode, cands) ==
    /\ sc.pc = "idle"
    /\ sc' = [pc |-> "done", provider |-> "nominatim", name |-> name,
              cc |-> countryCode, cands |-> cands,
              out |-> geocodeNominatim(name, countryCode,
                                       [kind |-> "ok", cands |-> cands])]
    /\ UNCHANGED outsideChoice

\* the caller has taken the result
TakeChoice ==
    /\ sc.pc = "done"
    /\ sc' = IdleChoice
    /\ UNCHANGED outsideChoice

ChoiceNext ==
    \/ \E name \in ScoreQueries, countryCode \in ScoreCountryCodes, cands \in ScoreLists :
          ChooseOpenMeteo(name, countryCode, cands)
    \/ \E name \in ScoreQueries, countryCode \in ScoreCountryCodes, cands \in ScoreLists :
          ChooseNominatim(name, countryCode, cands)
    \/ TakeChoice

(***************************************************************************)
(* Fan-outs behind a gate: the goroutines of buildSpotifyData (listener    *)
(* counts), handleGroupieArtistDetail (geocoding) and                      *)
(* SearchAppleArtistsWithArtwork (artwork), each of which sends to the     *)
(* buffered channel sem before its fetch and receives from it afterwards,  *)
(* and the wg.Wait() that joins them.                                      *)
(***************************************************************************)
FanOuts == {"listeners", "geocode", "artwork"}

\* make(chan struct{}, n): artists.go line 396, artist_detail.go line 129,
\* apple.go line 185
Gate(fanout) ==
    CASE fanout = "listeners" -> 8
      [] fanout = "geocode" -> 4
      [] fanout = "artwork" -> 6

\* the goroutines a request starts: one per entry, up to here
MaxWorkers == 9

\* a send to sem that finds the channel full or not
SlotAlwaysFree(fanout, running) == TRUE

\* sem <- struct{}{} goes through while the channel holds fewer than its
\* capacity
SlotFree(fanout, running) == running < Gate(fanout)

\* A fan-out: which one, the goroutines blocked on the send to sem (queued),
\* those between the send and the receive (running: the length of sem), and
\* those that have returned (finished: the wg.Done() calls).
IdleFanOut ==
    [pc |-> "idle", fanout |-> "none", queued |-> 0, running |-> 0, finished |-> 0]

FanOutInit == fo = IdleFanOut

\* the loop that starts one goroutine per entry: artists.go lines 399-412,
\* artist_detail.go lines 132-163, apple.go lines 188-198
StartFanOut(fanout, n) ==
    /\ fo.pc = "idle"
    /\ fo' = [IdleFanOut EXCEPT !.pc = "fanout", !.fanout = fanout, !.queued = n]
    /\ UNCHANGED outsideFanOut

\* sem <- struct{}{} of one goroutine: artists.go line 403, artist_detail.go
\* line 140, apple.go line 192
AcquireSlot ==
    /\ fo.pc = "fanout"
    /\ fo.queued > 0
    /\ SlotFree(fo.fanout, fo.running)
    /\ fo' = [fo EXCEPT !.queued = @ - 1, !.running = @ + 1]
    /\ UNCHANGED outsideFanOut

\* the fetch of one goroutine returns, the goroutine receives from sem and
\* returns: artists.go lines 404-410, artist_detail.go lines 141-161 (the
\* deferred receive), apple.go lines 193-196
ReleaseSlot ==
    /\ fo.pc = "fanout"
    /\ fo.running > 0
    /\ fo' = [fo EXCEPT !.running = @ - 1, !.finished = @ + 1]
    /\ UNCHANGED outsideFanOut

\* wg.Wait() returns when every goroutine has called wg.Done(): artists.go
\* line 414, artist_detail.go line 165, apple.go line 200
JoinFanOut ==
    /\ fo.pc = "fanout"
    /\ fo.queued = 0 /\ fo.running = 0
    /\ fo' = [fo EXCEPT !.pc = "joined"]
    /\ UNCHANGED outsideFanOut

\* the request goes on with the results
TakeFanOut ==
    /\ fo.pc = "joined"
    /\ fo' = IdleFanOut
    /\ UNCHANGED outsideFanOut

FanOutNext ==
    \/ \E fanout \in FanOuts, n \in 0..MaxWorkers : StartFanOut(fanout, n)
    \/ AcquireSlot
    \/ ReleaseSlot
    \/ JoinFanOut
    \/ TakeFanOut

\* the scheduler runs every goroutine that can run, and every fetch returns
\* (each has a client timeout)
FanOutFairness ==
    WF_vars(AcquireSlot) /\ WF_vars(ReleaseSlot) /\ WF_vars(JoinFanOut)

(***************************************************************************)
(* The locations a Groupie detail request geocodes: the keys of the        *)
(* relation's DatesLocations, sorted and cut (artist_detail.go lines       *)
(* 112-124), and the loop that starts one goroutine with one Geocode call  *)
(* for each key that is left (lines 132-163).                              *)
(***************************************************************************)
\* location keys of one and two bytes, some of them prefixes of others
KeyUniverse ==
    {<<c>> : c \in 97..105} \cup {<<c, d>> : c \in 97..105, d \in {45, 122}}

\* the DatesLocations of an artist: a few keys, all keys but a few, or all
KeySets ==
    {{a, b} : a, b \in KeyUniverse}
        \cup {KeyUniverse \ {a, b} : a, b \in KeyUniverse} \cup {KeyUniverse}

\* A request: the keys of the relation, the keys left after the cut, the
\* position of the loop in them, and the keys Geocode was called for.
IdleLocations ==
    [pc |-> "idle", all |-> {}, keys |-> <<>>, next |-> 1, called |-> <<>>]

LocationsInit == lc = IdleLocations

\* lines 112-124: collect the keys, sort.Strings, cut to maxLocations
CollectKeys(S) ==
    /\ lc.pc = "idle"
    /\ lc' = [IdleLocations EXCEPT !.pc = "loop", !.all = S, !.keys = GeocodedKeys(S)]
    /\ UNCHANGED outsideLocations

\* lines 132-163: one iteration of the loop, and the one Geocode call of the
\* goroutine it starts (line 143)
GeocodeKey ==
    /\ lc.pc = "loop"
    /\ lc.next <= Len(lc.keys)
    /\ lc' = [lc EXCEPT !.next = @ + 1, !.called = Append(@, lc.keys[lc.next])]
    /\ UNCHANGED outsideLocations

\* line 165: the loop is over and wg.Wait() has returned
LoopDone ==
    /\ lc.pc = "loop"
    /\ lc.next > Len(lc.keys)
    /\ lc' = [lc EXCEPT !.pc = "done"]
    /\ UNCHANGED outsideLocations

\* the request goes on with the locations
TakeLocations ==
    /\ lc.pc = "done"
    /\ lc' = IdleLocations
    /\ UNCHANGED outsideLocations

LocationsNext ==
    \/ \E S \in KeySets : CollectKeys(S)
    \/ GeocodeKey
    \/ LoopDone
    \/ TakeLocations

(***************************************************************************)
(* Wikipedia summary lookup (unnamed/part_008): FetchWikipediaSummary and  *)
(* searchWikipediaTitle.                                                   *)
(***************************************************************************)
HasSuffix(s, p) == Len(p) <= Len(s) /\ SubSeq(s, Len(s) - Len(p) + 1, Len(s)) = p

\* line 43
suffixes ==
    <<<<32, 98, 97, 110, 100>>, <<32, 109, 117, 115, 105, 99, 32, 103, 114, 111, 117, 112>>, <<32, 109, 117, 115, 105, 99, 97, 108, 32, 103, 114, 111, 117, 112>>, <<32, 115, 105, 110, 103, 101, 114>>,
      <<32, 109, 117, 115, 105, 99, 105, 97, 110>>, <<32, 114, 97, 112, 112, 101, 114>>, <<32, 97, 114, 116, 105, 115, 116>>>>

\* lines 106-112
parentheticals ==
    {<<40, 98, 97, 110, 100, 41>>, <<40, 109, 117, 115, 105, 99, 32, 103, 114, 111, 117, 112, 41>>, <<40, 109, 117, 115, 105, 99, 97, 108, 32, 103, 114, 111, 117, 112, 41>>, <<40, 115, 105, 110, 103, 101, 114, 41>>,
     <<40, 109, 117, 115, 105, 99, 105, 97, 110, 41>>, <<40, 114, 97, 112, 112, 101, 114, 41>>, <<40, 97, 114, 116, 105, 115, 116, 41>>}

\* lines 40-50: the query, trimmed, without the first suffix of the list it
\* ends with
BaseOf(rawQuery) ==
    LET base == TrimSpace(rawQuery)
        m == {i \in DOMAIN suffixes : HasSuffix(ToLower(base), suffixes[i])}
    IN  IF m = {} THEN base
        ELSE LET first == CHOOSE i \in m : \A j \in m : i <= j
             IN  TrimSpace(SubSeq(base, 1, Len(base) - Len(suffixes[first])))

\* the first title of a list, or the empty string
FirstTitle(titles) == IF titles = <<>> THEN <<>> ELSE titles[1]

\* lines 52-85: what a search request gives: an error (transport, status,
\* decoding) or the titles of the hits
\* lines 87-134: the title chosen among the hits of a query
searchWikipediaTitle(rawQuery, answer) ==
    LET lowerBase == ToLower(BaseOf(rawQuery))
        hits == answer.hits
        exact == SelectSeq(hits, LAMBDA t : ToLower(t) = lowerBase)
        pref == SelectSeq(hits, LAMBDA t :
                    /\ HasPrefix(ToLower(t), lowerBase \o <<32, 40>>)
                    /\ \E par \in parentheticals : Contains(ToLower(t), par))
        any == SelectSeq(hits, LAMBDA t : t # <<>>)
    IN  IF rawQuery = <<>> \/ ~answer.ok \/ hits = <<>> THEN [title |-> <<>>, err |-> TRUE]
        ELSE IF exact # <<>> THEN [title |-> exact[1], err |-> FALSE]
        ELSE IF pref # <<>> THEN [title |-> pref[1], err |-> FALSE]
        ELSE IF any # <<>> THEN [title |-> any[1], err |-> FALSE]
        ELSE [title |-> <<>>, err |-> TRUE]

\* lines 147-155: the queries of FetchWikipediaSummary, in order
QueriesOf(title) ==
    <<title \o <<32, 97, 114, 116, 105, 115, 116>>, title \o <<32, 98, 97, 110, 100>>, title \o <<32, 109, 117, 115, 105, 99, 32, 103, 114, 111, 117, 112>>, title>>

\* the titles looked up
WikiTitles == {<<>>, <<81, 117, 101, 101, 110>>, <<84, 104, 101, 32, 66, 97, 110, 100>>}

\* the page titles a search can return
WikiPages ==
    {<<81, 117, 101, 101, 110>>, <<81, 85, 69, 69, 78>>, <<81, 117, 101, 101, 110, 32, 40, 102, 105, 108, 109, 41>>, <<81, 117, 101, 101, 110, 32, 40, 98, 97, 110, 100, 41>>,
     <<84, 104, 101, 32, 66, 97, 110, 100>>, <<84, 104, 101, 32, 66, 97, 110, 100, 32, 100, 105, 115, 99, 111, 103, 114, 97, 112, 104, 121>>}

MaxHits == 2

\* the answers to a search request: a failure, no hit, or up to MaxHits
\* different pages
WikiAnswers ==
    {[ok |-> FALSE, hits |-> <<>>]}
        \cup {[ok |-> TRUE, hits |-> h] :
                h \in {s \in UNION {[1..k -> WikiPages] : k \in 0..MaxHits} :
                          \A i, j \in DOMAIN s : s[i] = s[j] => i = j}}

\* A lookup: the title, the queries sent and their answers, the title
\* resolved, and how the lookup ended.
IdleWiki ==
    [pc |-> "idle", title |-> <<>>, queries |-> <<>>, answers |-> <<>>,
     resolved |-> <<>>, err |-> FALSE]

WikiInit == wk = IdleWiki

\* lines 138-147: the empty title is refused, otherwise the first query goes
\* out
CallFetchWikipediaSummary(title) ==
    /\ wk.pc = "idle"
    /\ wk' = IF title = <<>>
             THEN [IdleWiki EXCEPT !.pc = "done", !.err = TRUE]
             ELSE [IdleWiki EXCEPT !.pc = "search", !.title = title,
                                   !.queries = <<QueriesOf(title)[1]>>]
    /\ UNCHANGED outsideWiki

\* lines 147-159: the answer to the query that is out: a title goes on to
\* the summary request, an error to the next query, or to the caller after
\* the last one
WikiSearchResponse(answer) ==
    /\ wk.pc = "search"
    /\ LET n == Len(wk.queries)
           res == searchWikipediaTitle(wk.queries[n], answer)
           seen == [wk EXCEPT !.answers = Append(@, answer)]
       IN  wk' = IF ~res.err
                 THEN [seen EXCEPT !.pc = "summary", !.resolved = res.title]
                 ELSE IF n < Len(QueriesOf(wk.title))
                 THEN [seen EXCEPT !.queries = Append(@, QueriesOf(wk.title)[n + 1])]
                 ELSE [seen EXCEPT !.pc = "done", !.err = TRUE]
    /\ UNCHANGED outsideWiki

\* lines 162-193: the summary request for the resolved title
WikiSummaryResponse(ok) ==
    /\ wk.pc = "summary"
    /\ wk' = [wk EXCEPT !.pc = "done", !.err = ~ok]
    /\ UNCHANGED outsideWiki

\* the caller takes the summary or the error
TakeWiki ==
    /\ wk.pc = "done"
    /\ wk' = IdleWiki
    /\ UNCHANGED outsideWiki

WikiNext ==
    \/ \E title \in WikiTitles : CallFetchWikipediaSummary(title)
    \/ \E answer \in WikiAnswers : WikiSearchResponse(answer)
    \/ \E ok \in BOOLEAN : WikiSummaryResponse(ok)
    \/ TakeWiki

(***************************************************************************)
(* Apple artwork lookup (internal/api/apple.go): GetAppleArtistArtwork and *)
(* appleArtworkCache.                                                      *)
(***************************************************************************)
\* ExpiresAt: now.Add(30 * time.Minute)
artworkTTL == 30

\* the clock of the artwork cache, in minutes
ArtworkTickMinutes == 15
MaxArtworkMin == 45

ArtistIDs == {0, 1, 2}

\* the items of a lookup answer: wrapper type and artworkUrl100
LookupItems ==
    {[WrapperType |-> "artist", ArtworkURL100 |-> ""],
     [WrapperType |-> "collection", ArtworkURL100 |-> ""],
     [WrapperType |-> "collection", ArtworkURL100 |-> "a100"],
     [WrapperType |-> "collection", ArtworkURL100 |-> "b100"]}

\* what appleDoJSON gives: an error, or the results of the payload
LookupAnswers ==
    {[ok |-> FALSE, Results |-> <<>>]}
        \cup {[ok |-> TRUE, Results |-> r] : r \in UNION {[1..k -> LookupItems] : k \in 0..2}}

\* lines 418-432: the artwork of the first collection that has one, at the
\* size asked for (the rewriting of the URL is kept as the pair of the URL
\* and the size), or the empty string
ArtworkOf(results, size) ==
    LET with == SelectSeq(results, LAMBDA it :
                    it.WrapperType = "collection" /\ it.ArtworkURL100 # "")
    IN  IF with = <<>> THEN "" ELSE <<with[1].ArtworkURL100, size>>

\* line 398: the entry of the artist that is returned without a lookup
ArtworkCacheHit(m, artistID, now) ==
    /\ artistID \in DOMAIN m
    /\ m[artistID].URL # ""
    /\ now < m[artistID].ExpiresAt

\* A call: the artist and the time.Now() of line 396; with it the cache m,
\* the clock, and what the call returned.
IdleArtwork(m, clock) ==
    [pc |-> "idle", id |-> 0, now |-> 0, m |-> m, clock |-> clock,
     out |-> "", err |-> FALSE]

ArtworkInit == aw = IdleArtwork(<<>>, 0)

ArtworkTick ==
    /\ aw.clock + ArtworkTickMinutes <= MaxArtworkMin
    /\ aw' = [aw EXCEPT !.clock = @ + ArtworkTickMinutes]
    /\ UNCHANGED outsideArtwork

\* lines 388-414: refuse a bad ID, return a cache hit, or send the lookup
CallGetAppleArtistArtwork(artistID) ==
    /\ aw.pc = "idle"
    /\ aw' = IF artistID <= 0
             THEN [IdleArtwork(aw.m, aw.clock) EXCEPT !.pc = "done", !.id = artistID,
                                                      !.err = TRUE]
             ELSE IF ArtworkCacheHit(aw.m, artistID, aw.clock)
             THEN [IdleArtwork(aw.m, aw.clock) EXCEPT !.pc = "done", !.id = artistID,
                                                      !.out = aw.m[artistID].URL]
             ELSE [IdleArtwork(aw.m, aw.clock) EXCEPT !.pc = "lookup", !.id = artistID,
                                                      !.now = aw.clock]
    /\ UNCHANGED outsideArtwork

\* lines 414-442: the answer of the lookup: an error is returned, anything
\* else is stored, the empty string too, with the expiry counted from the
\* start of the call
ArtworkLookupResponse(answer) ==
    /\ aw.pc = "lookup"
    /\ aw' = IF ~answer.ok
             THEN [aw EXCEPT !.pc = "done", !.err = TRUE]
             ELSE LET art == ArtworkOf(answer.Results, 300)
                      item == [URL |-> art, ExpiresAt |-> aw.now + artworkTTL]
                  IN  [aw EXCEPT !.pc = "done", !.out = art,
                                 !.m = [k \in DOMAIN @ \cup {aw.id} |->
                                           IF k = aw.id THEN item ELSE @[k]]]
    /\ UNCHANGED outsideArtwork

\* the caller takes the URL or the error
TakeArtwork ==
    /\ aw.pc = "done"
    /\ aw' = IdleArtwork(aw.m, aw.clock)
    /\ UNCHANGED outsideArtwork

ArtworkNext ==
    \/ ArtworkTick
    \/ \E artistID \in ArtistIDs : CallGetAppleArtistArtwork(artistID)
    \/ \E answer \in LookupAnswers : ArtworkLookupResponse(answer)
    \/ TakeArtwork

Init == TokenInit /\ CacheInit /\ GeoInit /\ ReleaseInit /\ TracksInit /\ ParseInit /\ SearchInit /\ DetailInit /\ RequestsInit /\ ChoiceInit /\ FanOutInit /\ LocationsInit /\ WikiInit /\ ArtworkInit

Next == TokenNext \/ CacheNext \/ GeoNext \/ ReleaseNext \/ TracksNext \/ ParseNext \/ SearchNext \/ DetailNext \/ RequestsNext \/ ChoiceNext \/ FanOutNext \/ LocationsNext \/ WikiNext \/ ArtworkNext

Spec == Init /\ [][Next]_vars

SpecToken == Init /\ [][TokenNext]_vars

SpecTokenEnv == Init /\ [][TokenEnvNext]_vars

SpecCache == Init /\ [][CacheNext]_vars

SpecGeo == Init /\ [][GeoNext]_vars

SpecReleases == Init /\ [][ReleaseNext]_vars

SpecTracks == Init /\ [][TracksNext]_vars

SpecDates == Init /\ [][ParseNext]_vars

SpecSearch == Init /\ [][SearchNext]_vars

SpecDetail == Init /\ [][DetailNext]_vars

SpecChoice == Init /\ [][ChoiceNext]_vars

SpecLocations == Init /\ [][LocationsNext]_vars

SpecWiki == Init /\ [][WikiNext]_vars

SpecArtwork == Init /\ [][ArtworkNext]_vars

SpecFanOut == Init /\ [][FanOutNext]_vars /\ FanOutFairness

SpecRequests == Init /\ [][RequestsNext]_vars /\ RequestsFairness

(***************************************************************************)
(* Claims about the token manager.                                         *)
(***************************************************************************)
SpotifyCallBy(p) ==
    /\ tk[p].pc = "idle"
    /\ \/ tk'[p].pc \in {"api", "token"} /\ tk'[p].op \in SpotifyOps
       \/ tk' = tk /\ ev' # ev /\ ev'.err = "missing spotify credentials"

ListenersCallBy(p) ==
    /\ tk[p].pc = "idle"
    /\ \/ tk'[p].pc = "lastfm"
       \/ /\ tk' = tk /\ ev' # ev
          /\ ev'.err \in {"missing LASTFM_API_KEY", "empty artist name"}

\* C1 as stated: every token getSpotifyToken returns, cached or just obtained,
\* has more than 30 seconds of validity left when it is returned.
C1_EveryTokenHasMargin ==
    ev.kind = "token" => ev.left > RefreshMarginSec

\* C1 amended: every token getSpotifyToken returns from the cache has more than
\* 30 seconds of validity left when it is returned (a token just obtained is
\* returned with the validity the endpoint gave it, whatever it is).
C1_CachedTokenHasMargin ==
    (ev.kind = "token" /\ ev.fromCache) => ev.left > RefreshMarginSec

C1_Witness ==
    ev.kind = "token" /\ ev.fromCache /\ ev.left = RefreshMarginSec + 1

\* C2: a call of getSpotifyToken is answered from the cache, with no token
\* request, exactly when a non-empty token is cached and now < expiresAt - 30s;
\* a cached token with 30 seconds or less left causes a token request.
C2_CacheAnswerIffFresh ==
    [][\A p \in Callers :
          SpotifyCallBy(p) =>
              LET fresh == /\ spotifyTokenCache.token # ""
                           /\ nowSec < spotifyTokenCache.expiresAt - 30
              IN  /\ (/\ ev'.kind = "token" /\ ev'.fromCache
                      /\ ev'.token = spotifyTokenCache.token
                      /\ ev'.tokenReqs = 0 /\ tk'[p].tokenReqs = 0) <=> fresh
                  /\ (spotifyTokenCache.token # "" /\ ~fresh) =>
                        (ev'.kind = "refresh" /\ tk'[p].pc = "token"
                            /\ tk'[p].tokenReqs = 1)]_vars

C2_Witness ==
    ev.kind = "refresh" /\ ev.hadToken /\ ev.left = 30

\* C3: when the token request fails (transport error, non-200 status, undecodable
\* body, empty access_token) the operation returns that error, sends no request
\* to the Spotify API, and the cached token and expiry stay as they were.
C3_TokenFailurePropagates ==
    [][\A p \in Callers :
          (tk[p].pc = "token" /\ tk'[p] # tk[p] /\ ev'.resp \in TokenFailures) =>
              /\ ev'.kind = "return" /\ ev'.err = ev'.resp
              /\ ev'.apiReqs = 0
              /\ tk'[p].pc = "idle"
              /\ spotifyTokenCache' = spotifyTokenCache]_vars

C3_Witness ==
    /\ ev.kind = "return" /\ ev.resp \in TokenFailures
    /\ spotifyTokenCache.token # ""

\* C4: with the Spotify client ID or secret empty, or the Last.fm key empty, the
\* operation returns its configuration error at once: no request is sent and the
\* cache is unchanged, also when a valid token is cached.
C4_MissingConfigIsImmediate ==
    [][\A p \in Callers :
          /\ (SpotifyCallBy(p) /\ CredentialsMissing(env)) =>
                /\ ev'.kind = "return"
                /\ ev'.err = "missing spotify credentials"
                /\ ev'.tokenReqs = 0 /\ ev'.apiReqs = 0
                /\ tk' = tk
                /\ spotifyTokenCache' = spotifyTokenCache
          /\ (ListenersCallBy(p) /\ env.lastfm = "") =>
                /\ ev'.kind = "return"
                /\ ev'.err = "missing LASTFM_API_KEY"
                /\ ev'.lastfmReqs = 0
                /\ tk' = tk
                /\ spotifyTokenCache' = spotifyTokenCache]_vars

C4_Witness ==
    /\ ev.kind = "return" /\ ev.err = "missing spotify credentials"
    /\ CredentialsMissing(env)
    /\ TokenCacheValid(spotifyTokenCache, nowSec)

C7_LaterCallsRepeatFirstReturn ==
    [][\A p \in GeoCallers, q \in GeoQueries, cancelled \in BOOLEAN :
        LET key == GeoKey(GeoName(q[1]), GeoCC(q[2]))
        IN  (CallGeocode(p, q[1], q[2], cancelled) /\ key \in DOMAIN geoFirst) =>
                /\ gc'[p].pc = "idle"
                /\ gev'.kind = "return" /\ gev'.key = key
                /\ gev'.res = geoFirst[key].result
                /\ gev'.ok = geoFirst[key].ok]_vars

\* C8: a Geocode call whose context is cancelled before its provider requests
\* finish adds no entry to the cache.
C8_CancelledCallAddsNoEntry ==
    [][\A p \in GeoCallers :
        (gc[p].pc # "idle" /\ gc[p].cancelled /\ gc'[p].pc = "idle") =>
            DOMAIN geoCache' = DOMAIN geoCache]_vars

\* the coordinates of a result are those of the candidate it was made from
FromCandidate(res, c) == res.Lat = c.latitude /\ res.Lng = c.longitude

\* the country code of a key: what follows its last "|"
KeyCountryCode(key) ==
    LET bar == CHOOSE i \in 1..Len(key) :
                  key[i] = 124 /\ \A j \in (i + 1)..Len(key) : key[j] # 124
    IN  SubSeq(key, bar + 1, Len(key))

\* C9: with a non-empty country code, a result returned with found = true comes
\* from a candidate whose country code equals the requested one, compared
\* case-insensitively: a call that finishes with a result at a provider
\* response took it from such a candidate of that response, and every result
\* kept in the cache under a key with a country code is of such a candidate.
C9_FoundResultIsInCountry ==
    /\ [][\A p \in GeoCallers :
            (gc[p].pc # "idle" /\ gc'[p].pc = "idle" /\ gev'.ok /\ gc[p].cc # <<>>) =>
                \E r \in ProviderResponses :
                    /\ NominatimFirstResponse(p, r) \/ OpenMeteoResponse(p, r)
                          \/ NominatimResponse(p, r)
                    /\ \E i \in 1..Len(r.cands) :
                          /\ FromCandidate(gev'.res, r.cands[i])
                          /\ EqualFold(r.cands[i].countryCode, gc[p].cc)]_vars
    /\ [](\A key \in DOMAIN geoCache :
            (geoCache[key].ok /\ KeyCountryCode(key) # <<>>) =>
                \E c \in Places :
                    /\ FromCandidate(geoCache[key].result, c)
                    /\ EqualFold(c.countryCode, KeyCountryCode(key)))
    /\ []((gev.kind = "return" /\ gev.ok /\ gev.cc # <<>>) =>
                \E c \in Places :
                    /\ FromCandidate(gev.res, c)
                    /\ EqualFold(c.countryCode, gev.cc))

\* Geocode("Ohia", " us") has returned the place whose country code is "us"
C9_Witness ==
    /\ gev.kind = "return" /\ gev.ok /\ gev.cc = US
    /\ FromCandidate(gev.res, OhioState)
    /\ ~gev.cached

(***************************************************************************)
(* The order of the latest releases                                        *)
(***************************************************************************)
\* the parsed release date, the lower-cased title and the ID of an album
ReleaseDateOf(provider, a) ==
    CASE provider = "spotify" -> ParseSpotifyReleaseDate(a.ReleaseDate)
      [] provider = "deezer" -> ParseDeezerReleaseDate(a.ReleaseDate)
      [] provider = "apple" -> parseAppleDate(a.ReleaseDate)

ReleaseTitleOf(provider, a) ==
    CASE provider = "spotify" -> ToLower(a.Name)
      [] provider = "deezer" -> ToLower(a.Title)
      [] provider = "apple" -> ToLower(a.CollectionName)

ReleaseIDLess(provider, a, b) ==
    CASE provider = "spotify" -> StrLess(a.ID, b.ID)
      [] provider = "deezer" -> a.ID < b.ID
      [] provider = "apple" -> a.CollectionID < b.CollectionID

SameReleaseDate(provider, a, b) ==
    LET da == ReleaseDateOf(provider, a)
        db == ReleaseDateOf(provider, b)
    IN  (~da.ok /\ ~db.ok) \/ (da.ok /\ db.ok /\ TimeEqual(da, db))

\* a comes strictly before b: later date, or a date against none, then the
\* lower-cased title, then the ID
ReleaseBefore(provider, a, b) ==
    LET da == ReleaseDateOf(provider, a)
        db == ReleaseDateOf(provider, b)
        ta == ReleaseTitleOf(provider, a)
        tb == ReleaseTitleOf(provider, b)
    IN  \/ da.ok /\ ~db.ok
        \/ da.ok /\ db.ok /\ TimeAfter(da, db)
        \/ SameReleaseDate(provider, a, b) /\ StrLess(ta, tb)
        \/ SameReleaseDate(provider, a, b) /\ ta = tb /\ ReleaseIDLess(provider, a, b)

\* C10: the list a latest-releases listing returns, of whichever provider, is
\* in the order of release date descending, items without a parsable date
\* last, then lower-cased title ascending, then ID ascending, and strictly so:
\* of two items of one output the earlier one comes strictly before the later
\* one, no two compare as equal.
C10_OutputStrictlyOrdered ==
    (rel.pc = "done" /\ ~rel.err) =>
        \A i, j \in 1..Len(rel.out) :
            i < j => ReleaseBefore(rel.provider, rel.out[i], rel.out[j])

(***************************************************************************)
(* The order of the top tracks                                             *)
(***************************************************************************)
\* the parsed date, the lower-cased title and the ID of a returned track
TrackDateOf(provider, t) ==
    CASE provider = "spotify" -> ParseSpotifyReleaseDate(t.AlbumReleaseDate)
      [] provider = "deezer" -> NoTime
      [] provider = "apple" -> parseAppleDate(t.ReleaseDate)

TrackTitleOf(provider, t) ==
    CASE provider = "spotify" -> ToLower(t.Name)
      [] provider = "deezer" -> ToLower(t.Title)
      [] provider = "apple" -> ToLower(t.TrackName)

TrackIDLess(provider, a, b) ==
    CASE provider = "spotify" -> StrLess(a.ID, b.ID)
      [] provider = "deezer" -> a.ID < b.ID
      [] provider = "apple" -> a.TrackID < b.TrackID

\* a comes strictly before b: newer, or dated against undated, then the
\* lower-cased title, then the ID
TrackBefore(provider, a, b) ==
    LET da == TrackDateOf(provider, a)
        db == TrackDateOf(provider, b)
        same == (~da.ok /\ ~db.ok) \/ (da.ok /\ db.ok /\ TimeEqual(da, db))
        ta == TrackTitleOf(provider, a)
        tb == TrackTitleOf(provider, b)
    IN  \/ da.ok /\ ~db.ok
        \/ da.ok /\ db.ok /\ TimeAfter(da, db)
        \/ same /\ StrLess(ta, tb)
        \/ same /\ ta = tb /\ TrackIDLess(provider, a, b)

\* the orders in which the upstream can return the tracks of a response
Reorderings(s) ==
    {[i \in 1..Len(s) |-> s[p[i]]] :
        p \in {q \in [1..Len(s) -> 1..Len(s)] :
                 \A i, j \in 1..Len(s) : i # j => q[i] # q[j]}}

\* C11: the list a top-tracks operation returns, of whichever provider, is
\* newest first, ties broken by lower-cased title and then by ID (no item
\* comes after one it should precede), and it is the list the operation
\* returns for every other order of the same upstream tracks.
C11_TopTracksOrdered ==
    (trk.pc = "done" /\ ~trk.err) =>
        /\ \A i, j \in 1..Len(trk.out) :
              i < j => ~TrackBefore(trk.provider, trk.out[j], trk.out[i])
        /\ \A r \in Reorderings(trk.input) :
              TopTracksOf(trk.provider, r, trk.limit) = trk.out

(***************************************************************************)
(* Merge by ID                                                             *)
(***************************************************************************)
\* the albums a listing has merged: what GetSpotifyArtistAlbums returned, and
\* for GetDeezerArtistAlbums the albums merged from the passes so far, until
\* the first album lookup has answered
MergedAlbums ==
    IF rel.provider = "spotify" /\ rel.pc = "done" THEN rel.out
    ELSE IF rel.provider = "deezer" /\
            (rel.pc = "listing" \/ (rel.pc = "lookup" /\ rel.pending = DOMAIN rel.albums))
    THEN rel.albums
    ELSE <<>>

\* whether the merged list is the whole merge, not cut to the limit
MergeUncut ==
    rel.provider = "deezer" \/
    Cardinality({c[1] : c \in {x \in rel.copies : x[1] # <<>>}}) <= WantOf(rel.limit)

\* an ID that names a release: Spotify's is not empty, Deezer's is positive
IsReleaseID(id) == IF rel.provider = "spotify" THEN id # <<>> ELSE id > 0

\* C12: of the copies of one release ID that a Spotify or Deezer album listing
\* received, the merged list holds exactly one entry (none only when the list
\* was cut to the limit), and the release date of that entry is parsable if
\* the date of any copy is, and no copy has a strictly newer parsed date.
C12_OneEntryWithBestDate ==
    /\ \A i, j \in 1..Len(MergedAlbums) :
          i # j => MergedAlbums[i].ID # MergedAlbums[j].ID
    /\ \A c \in rel.copies :
          (IsReleaseID(c[1]) /\ MergedAlbums # <<>>) =>
              /\ MergeUncut => \E i \in 1..Len(MergedAlbums) : MergedAlbums[i].ID = c[1]
              /\ \A i \in 1..Len(MergedAlbums) :
                    MergedAlbums[i].ID = c[1] =>
                        LET kept == ReleaseDateOf(rel.provider, MergedAlbums[i])
                            copy == ReleaseDateOf(rel.provider, [ReleaseDate |-> c[2]])
                        IN  ~(copy.ok /\ (~kept.ok \/ TimeAfter(copy, kept)))

(***************************************************************************)
(* Release dates                                                           *)
(***************************************************************************)
\* 00:00 UTC of a day
StartOfDay(y, m, d) ==
    [ok |-> TRUE, day |-> y * 10000 + m * 100 + d, sec |-> 0, nano |-> 0, off |-> 0]

\* C13: ParseSpotifyReleaseDate reports a year as January 1 of that year, a
\* year and month as the first day of that month, a day as that day, and a
\* timestamp (with or without a fraction of a second) as its calendar day,
\* each at 00:00 UTC and as parsable; it reports the empty string and strings
\* of blanks as not parsable.
C13_DatesNormalised ==
    pd.pc = "done" =>
        /\ pd.in.form = "year" => pd.out = StartOfDay(pd.in.y, 1, 1)
        /\ pd.in.form = "month" => pd.out = StartOfDay(pd.in.y, pd.in.m, 1)
        /\ pd.in.form = "day" => pd.out = StartOfDay(pd.in.y, pd.in.m, pd.in.d)
        /\ pd.in.form = "timestamp" => pd.out = StartOfDay(pd.in.y, pd.in.m, pd.in.d)
        /\ pd.in.form = "blank" => ~pd.out.ok

\* a timestamp with a fraction and a zone other than UTC has been parsed
C13_Witness ==
    /\ pd.pc = "done"
    /\ pd.in.form = "timestamp"
    /\ Len(pd.in.text) > 25
    /\ pd.out.ok
    /\ pd.out.day = 20000229

(***************************************************************************)
(* Search                                                                  *)
(***************************************************************************)
\* C14: a search of Spotify, Deezer or Apple sends a query parameter that is
\* not empty, the letter "a" when the query it was called with is empty or
\* blank, and it fails only when the upstream request fails, never because
\* of the query.
C14_EmptyQueryBecomesA ==
    /\ [](sr.pc # "idle" =>
            /\ sr.sent # <<>>
            /\ TrimSpace(sr.query) = <<>> => sr.sent = <<97>>)
    /\ [][(sr.pc = "idle" /\ sr'.pc # "idle") => (sr'.pc = "search" /\ ~sr'.err)]_vars
    /\ [][(sr'.err /\ ~sr.err) => sr.pc = "search"]_vars

\* a direct search called with a blank query has sent "a" and has succeeded
C14_Witness ==
    /\ sr.pc = "done"
    /\ sr.direct
    /\ sr.query = <<32, 32>>
    /\ sr.sent = <<97>>
    /\ ~sr.err
    /\ Len(sr.out) = 2

(***************************************************************************)
(* Artist detail pages                                                     *)
(***************************************************************************)
\* the outcomes of a primary lookup that say the record does not exist, and
\* those that are transient
RecordMissing == {"status404", "missing", "nodata"}

TransientFailure == {"timeout", "nohost", "status500", "badjson"}

\* C15: a detail request of any of the four sources answers 404 only when
\* the primary lookup failed because the record does not exist, answers 500
\* when it failed for a transient reason (timeout, connection error, another
\* status, malformed JSON), and never answers a timeout with 404.
C15_NotFoundOnlyWhenMissing ==
    (dt.pc = "done" /\ dt.cause # "none") =>
        /\ dt.status = 404 => dt.cause \in RecordMissing
        /\ dt.cause \in TransientFailure => dt.status = 500
        /\ dt.cause = "timeout" => dt.status # 404

\* C16: once the primary lookup of a detail request has succeeded, the
\* failure of any other fetch of the page (top tracks, latest releases,
\* listener count, Wikipedia summary, concert relations, geocoding of a
\* location) leaves the request successful, and the field the failed fetch
\* would have filled is empty or zero.
C16_SubFetchFailureDegrades ==
    (dt.pc = "done" /\ dt.cause = "ok") =>
        /\ dt.status = 200
        /\ "wiki" \in dt.failed => ~dt.wiki
        /\ "listeners" \in dt.failed => dt.listeners = 0
        /\ "tracks" \in dt.failed => dt.tracks = <<>>
        /\ "albums" \in dt.failed => dt.albums = <<>>
        /\ "relations" \in dt.failed => dt.locations = <<>>
        /\ \A i \in 1..Len(dt.keys) :
              ~dt.geo[i].ok =>
                  \A j \in 1..Len(dt.locations) :
                      dt.locations[j].Dates # DatesOf(dt.keys[i])

\* the MapLocations of the answered places, appended in the order of the
\* keys
RECURSIVE LocationsInKeyOrder(_, _, _)
LocationsInKeyOrder(keys, geo, i) ==
    IF i > Len(keys) THEN <<>>
    ELSE (IF geo[i].ok THEN <<MapLocationOf(keys[i], geo[i])>> ELSE <<>>)
         \o LocationsInKeyOrder(keys, geo, i + 1)

\* C17: for fixed upstream responses, the final output of an aggregation is
\* the same for every completion order of its concurrent fetches, also when
\* two results compare equal under the sort key: the concert locations of a
\* Groupie detail page, once sorted, are what sorting gives when the
\* goroutines finish in the order of their keys.
C17_LocationsIndependentOfCompletionOrder ==
    (dt.source = "groupie" /\ dt.cause = "ok" /\ dt.pending = {}
        /\ (dt.step = 3 \/ dt.status = 200)) =>
        dt.locations =
            SliceStable("locations", LocationsInKeyOrder(dt.keys, dt.geo, 1))

(***************************************************************************)
(* Search results                                                          *)
(***************************************************************************)
\* the artist of an entry of a result list
EntryArtist(x) == IF "Artist" \in DOMAIN x THEN x.Artist ELSE x

ArtistsOf(list) == [i \in 1..Len(list) |-> EntryArtist(list[i])]

\* a hit of the iTunes search that has an ID and a name
IsCompleteHit(a) == a.ArtistID > 0 /\ TrimSpace(a.ArtistName) # <<>>

\* the artists of the upstream list that a search keeps: all of them, and
\* for Apple the complete hits up to the limit of the call
KeptHits ==
    IF sr.provider = "apple"
    THEN Truncate(SelectSeq(sr.upstream, IsCompleteHit),
                  IF sr.limit <= 0 \/ sr.limit > 50 THEN 30 ELSE sr.limit)
    ELSE sr.upstream

\* the sort option of the search is empty, "relevance" or unrecognised
KeepsRelevanceOrder == sr.sort \notin SortOptions(sr.provider)

C19_EveryOperationReturns == (rq.pc = "waiting") ~> (rq.pc = "done")

(***************************************************************************)
(* Concurrent token refresh                                                *)
(***************************************************************************)
\* the callers whose request to the token endpoint is out
Refreshing == {p \in Callers : tk[p].pc = "token"}

\* C20: when several callers invoke getSpotifyToken concurrently while no
\* valid token is cached, exactly one token-endpoint call is made for the
\* refresh: no two callers have a request to the token endpoint out at the
\* same time (the condition is re-checked under the mutex, and the other
\* callers return the token the first one stored).
C20_OneTokenRequestPerRefresh == Cardinality(Refreshing) <= 1

(***************************************************************************)
(* Concurrent readers of a TTL cache                                       *)
(***************************************************************************)
\* the readers whose http.Get for the artists list, or for the relations
\* index, is out
FetchingArtists == {p \in Readers : rd[p].pc = "artistsHTTP"}

FetchingRelations == {p \in Readers : rd[p].pc = "relationsHTTP"}

\* the readers that are rebuilding the suggestion index: past the check of
\* getGroupieSuggestItems and not yet returned
RebuildingSuggest == {p \in Readers : rd[p].fn = "suggest" /\ rd[p].pc # "idle"}

\* C21: for each TTL cache the check-fetch-store sequence is mutually
\* exclusive: under any interleaving of concurrent readers at most one
\* upstream fetch (or rebuild) for that cache is in flight at a time, and a
\* reader that arrives while a fetch is in flight does not start a second one.
C21_OneFetchPerCache ==
    /\ Cardinality(FetchingArtists) <= 1
    /\ Cardinality(FetchingRelations) <= 1
    /\ Cardinality(RebuildingSuggest) <= 1

(***************************************************************************)
(* Geocoder cache entries                                                  *)
(***************************************************************************)
\* C22: under any interleaving of concurrent Geocode calls, once the cache
\* holds an entry for a key, the (result, found) of that entry never changes
\* afterwards; in particular a found result is never replaced by a not-found
\* one.
C22_CacheEntryNeverChanges ==
    [][\A key \in DOMAIN geoCache :
          key \in DOMAIN geoCache' /\ geoCache'[key] = geoCache[key]]_vars

(***************************************************************************)
(* Order of the geocoding providers                                        *)
(***************************************************************************)
\* the name is within Levenshtein distance 2 of the name of a US state
NearUSState(n) ==
    LET q == JoinSpace(Fields(ReplaceCommas(ToLower(TrimSpace(n)))))
    IN  q # <<>> /\ \E i \in 1..Len(states) : levenshtein(q, states[i]) <= 2

\* the same, worked out once for the names Geocode is called with
NearUSStateOf ==
    [n \in {GeoName(q[1]) : q \in GeoQueries} |-> NearUSState(n)]

\* the request a call is waiting for changes as the order of tryGeocode and
\* tryProviders says
ProviderStep(p) ==
    LET a == gc[p].pc
        b == gc'[p].pc
    IN  /\ (a = "idle" /\ b # a) =>
              /\ b \in {"nomFirst", "omRaw"}
              /\ b = "nomFirst" => (gc'[p].cc = US /\ NearUSStateOf[gc'[p].n])
        /\ (a = "nomFirst" /\ b # a) =>
              /\ b \in {"omRaw", "idle"}
              /\ b = "idle" => gev'.ok
        /\ (a = "omRaw" /\ b # a) =>
              /\ b \in {"nomRaw", "idle"}
              /\ b = "idle" => gev'.ok
        /\ (a = "nomRaw" /\ b # a) =>
              /\ b \in {"omNorm", "idle"}
              /\ b = "omNorm" => (NearUSStateOf[gc[p].n] /\ gc[p].norm # gc[p].n)
        /\ (a = "omNorm" /\ b # a) =>
              /\ b \in {"nomNorm", "idle"}
              /\ b = "idle" => gev'.ok
        /\ (a = "nomNorm" /\ b # a) => b = "idle"

\* the answer r to the request a call is waiting for has an in-country match
ProviderMatch(c, r) ==
    LET found == CASE c.pc = "nomFirst" -> geocodeNominatim(c.norm, c.cc, r)
                   [] c.pc = "omRaw" -> geocodeOpenMeteo(c.n, c.cc, r)
                   [] c.pc = "omNorm" -> geocodeOpenMeteo(c.norm, c.cc, r)
                   [] c.pc = "nomRaw" -> geocodeNominatim(c.n, c.cc, r)
                   [] c.pc = "nomNorm" -> geocodeNominatim(c.norm, c.cc, r)
    IN  found.ok /\ ~found.err

\* a provider's answer with an in-country match ends the call with a found
\* result: a step of the call that does not is the step of no such answer
StopsAtMatch(p) ==
    (/\ gc[p].pc \in {"nomFirst", "omRaw", "nomRaw", "omNorm", "nomNorm"}
     /\ gc'[p] # gc[p]
     /\ ~(gc'[p].pc = "idle" /\ gev'.ok)) =>
        \A r \in ProviderResponses :
            ProviderMatch(gc[p], r) =>
                /\ ~NominatimFirstResponse(p, r)
                /\ ~OpenMeteoResponse(p, r)
                /\ ~NominatimResponse(p, r)

\* C23: on a cache miss Geocode consults the providers in this order and
\* stops at the first in-country match: Nominatim with the normalized state
\* name, only if the country is US and the name is within Levenshtein
\* distance 2 of a US state name; Open-Meteo with the raw name; Nominatim
\* with the raw name, only if Open-Meteo gave no in-country match; and, only
\* if all of these failed and the normalized name differs from the raw one,
\* Open-Meteo and then Nominatim with the normalized name.
C23_ProvidersInOrder ==
    [][\A p \in GeoCallers : ProviderStep(p) /\ StopsAtMatch(p)]_vars

\* a call for "Ohia" in the US has got no match from Nominatim with "Ohio",
\* from Open-Meteo and Nominatim with "Ohia" and from Open-Meteo with "Ohio",
\* and waits for Nominatim with "Ohio"
C23_Witness ==
    \E p \in GeoCallers :
        /\ gc[p].pc = "nomNorm"
        /\ gc[p].n = <<79, 104, 105, 97>> /\ gc[p].norm = <<79, 104, 105, 111>> /\ gc[p].cc = US

(***************************************************************************)
(* Scoring of the candidates                                               *)
(***************************************************************************)
\* the in-country candidates of the response of the choice, in the
\* provider's order
InCountry ==
    IF sc.cc = <<>> THEN sc.cands
    ELSE SelectSeq(sc.cands, LAMBDA c : ToUpper(TrimSpace(c.countryCode)) = ToUpper(sc.cc))

\* the name and the administrative region a candidate is scored with
ScoredName(c) ==
    ToLower(IF sc.provider = "nominatim" /\ TrimSpace(c.name) = <<>>
            THEN TrimSpace(c.displayName) ELSE TrimSpace(c.name))

ScoredRegion(c) == ToLower(TrimSpace(c.admin1))

\* the terms of the score other than the one of the edit distance: +100 for
\* an exact name match, +40 for a prefix match, +20 for a substring match,
\* +5 when the administrative region contains the query
MatchPoints(c) ==
    LET q == ToLower(TrimSpace(sc.name))
    IN  (IF ScoredName(c) = q THEN 100 ELSE 0)
        + (IF HasPrefix(ScoredName(c), q) THEN 40 ELSE 0)
        + (IF Contains(ScoredName(c), q) THEN 20 ELSE 0)
        + (IF ScoredRegion(c) # <<>> /\ Contains(ScoredRegion(c), q) THEN 5 ELSE 0)

\* +30/+20/+10 for edit distance 0/1/2 between the query and the name
DistancePoints(c) ==
    LET d == levenshtein(ToLower(TrimSpace(sc.name)), ScoredName(c))
    IN  IF d = 0 THEN 30 ELSE IF d = 1 THEN 20 ELSE IF d = 2 THEN 10 ELSE 0

\* the score as the claim words it, and the score with the distance term
\* given to named candidates only
StatedScore(c) == MatchPoints(c) + DistancePoints(c)

NamedScore(c) ==
    MatchPoints(c) + (IF ScoredName(c) # <<>> THEN DistancePoints(c) ELSE 0)

\* the candidate that was chosen is at index i of the in-country candidates
ChosenAt(i) ==
    /\ sc.out.ok
    /\ sc.out.res.Lat = InCountry[i].latitude
    /\ sc.out.res.Lng = InCountry[i].longitude

\* C24 (as amended): among the in-country candidates of one provider
\* response the chosen candidate has the maximum score, the score being the
\* sum of +100 exact name match, +40 prefix match, +20 substring match,
\* +30/+20/+10 for edit distance 0/1/2 when the candidate has a name, and +5
\* when the administrative region contains the query; among several
\* candidates with the maximum score the earliest in the provider's order is
\* chosen.
C24_ChosenHasMaximumNamedScore ==
    (sc.pc = "done" /\ InCountry # <<>>) =>
        \E i \in 1..Len(InCountry) :
            /\ ChosenAt(i)
            /\ \A j \in 1..Len(InCountry) : NamedScore(InCountry[j]) <= NamedScore(InCountry[i])
            /\ \A j \in 1..(i - 1) : NamedScore(InCountry[j]) < NamedScore(InCountry[i])

\* two in-country candidates with the same, positive, score: the first one
\* was chosen
C24_Witness ==
    /\ sc.pc = "done" /\ sc.provider = "openmeteo" /\ sc.cc = <<>>
    /\ Len(sc.cands) = 2
    /\ NamedScore(sc.cands[1]) = NamedScore(sc.cands[2])
    /\ NamedScore(sc.cands[1]) = 190
    /\ ChosenAt(1)

\* C24 (as stated): the same with the +30/+20/+10 of the edit distance given
\* to every candidate.
C24_ChosenHasMaximumScore ==
    (sc.pc = "done" /\ InCountry # <<>>) =>
        \E i \in 1..Len(InCountry) :
            /\ ChosenAt(i)
            /\ \A j \in 1..Len(InCountry) : StatedScore(InCountry[j]) <= StatedScore(InCountry[i])
            /\ \A j \in 1..(i - 1) : StatedScore(InCountry[j]) < StatedScore(InCountry[i])

(***************************************************************************)
(* Fan-out gates                                                           *)
(***************************************************************************)
\* the sub-fetches of the fan-out in flight are within its gate
WithinGate ==
    /\ fo.fanout = "listeners" => fo.running <= 8
    /\ fo.fanout = "geocode" => fo.running <= 4
    /\ fo.fanout = "artwork" => fo.running <= 6

\* C25: within one request the number of enrichment sub-fetches in flight at
\* the same time never exceeds the gate of its fan-out (8 for the listener
\* counts of a search page, 4 for the geocoding of a detail page, 6 for the
\* artwork of the search with artwork), and every worker releases its slot,
\* so that all workers eventually run and the fan-out joins.
C25_GateHoldsAndFanOutJoins ==
    /\ [](WithinGate)
    /\ [][fo.running' < fo.running => fo.finished' = fo.finished + 1]_vars
    /\ (fo.pc = "fanout") ~> (fo.pc = "joined" /\ fo.queued = 0 /\ fo.running = 0)

\* a geocoding fan-out of more goroutines than its gate: four are in
\* flight and others wait for a slot
C25_Witness ==
    /\ fo.pc = "fanout" /\ fo.fanout = "geocode"
    /\ fo.running = 4 /\ fo.queued > 0 /\ fo.finished > 0

(***************************************************************************)
(* The cap on geocoded locations                                           *)
(***************************************************************************)
\* the keys of the artist that sort before key
KeysBefore(key) == {o \in lc.all : StrLess(o, key)}

\* C26: one Groupie detail request performs at most 25 Geocode calls,
\* whatever the number of concert locations of the artist, and the locations
\* it geocodes are the 25 smallest location keys in lexicographic order (all
\* of them when there are no more than 25), each once.
C26_AtMost25SmallestKeys ==
    /\ Len(lc.called) <= 25
    /\ \A i \in 1..Len(lc.called) :
          /\ lc.called[i] \in lc.all
          /\ Cardinality(KeysBefore(lc.called[i])) < 25
          /\ \A j \in 1..Len(lc.called) : lc.called[j] = lc.called[i] => j = i
    /\ lc.pc = "done" =>
          Len(lc.called) = IF Cardinality(lc.all) < 25 THEN Cardinality(lc.all) ELSE 25

\* an artist with 27 locations: the request is over after 25 calls
C26_Witness ==
    /\ lc.pc = "done"
    /\ Cardinality(lc.all) = 27
    /\ Len(lc.called) = 25

(***************************************************************************)
(* Wikipedia title resolution                                              *)
(***************************************************************************)
\* the title the claim picks among the hits of a query for a base title
StatedTitle(base, hits) ==
    LET exact == SelectSeq(hits, LAMBDA t : ToLower(t) = ToLower(base))
        form == SelectSeq(hits, LAMBDA t :
                    \E par \in parentheticals :
                        ToLower(t) = ToLower(base) \o <<32>> \o par)
    IN  IF exact # <<>> THEN exact[1]
        ELSE IF form # <<>> THEN form[1]
        ELSE hits[1]

\* the queries sent are the first ones of the stated order, and every query
\* but the last one sent had no hit
StatedQueries ==
    /\ Len(wk.queries) <= 4
    /\ \A i \in 1..Len(wk.queries) :
          wk.queries[i] =
              CASE i = 1 -> wk.title \o <<32, 97, 114, 116, 105, 115, 116>>
                [] i = 2 -> wk.title \o <<32, 98, 97, 110, 100>>
                [] i = 3 -> wk.title \o <<32, 109, 117, 115, 105, 99, 32, 103, 114, 111, 117, 112>>
                [] i = 4 -> wk.title
    /\ \A i \in 1..Len(wk.answers) :
          i < Len(wk.queries) => wk.answers[i].hits = <<>>

\* C27: FetchWikipediaSummary issues its search queries in the order
\* title+" artist", title+" band", title+" music group", then the bare title,
\* and stops at the first query that yields at least one hit; from that
\* query's hits it picks a title equal to the base title (case-insensitive)
\* if there is one, otherwise the first hit of the form
\* "<base> (<music-related disambiguator>)", otherwise the first hit.
C27_QueriesInOrderAndTitleChoice ==
    /\ StatedQueries
    /\ (Len(wk.answers) = Len(wk.queries) /\ wk.answers # <<>>
        /\ wk.answers[Len(wk.answers)].hits # <<>>)
          => /\ wk.pc \in {"summary", "done"}
             /\ wk.resolved = StatedTitle(TrimSpace(wk.title), wk.answers[Len(wk.answers)].hits)

(***************************************************************************)
(* Apple artwork cache                                                     *)
(***************************************************************************)
\* the cache holds an entry without artwork for the artist, stored less than
\* 30 minutes ago
EmptyEntryInForce(artistID) ==
    /\ artistID \in DOMAIN aw.m
    /\ aw.m[artistID].URL = ""
    /\ aw.clock < aw.m[artistID].ExpiresAt

\* C28: after a GetAppleArtistArtwork lookup that found no artwork for an
\* artist, the empty result is cached, so later GetAppleArtistArtwork calls
\* for the same artist within 30 minutes do not repeat the upstream lookup.
C28_EmptyArtworkNotLookedUpAgain ==
    [][\A artistID \in ArtistIDs :
          (aw.pc = "idle" /\ EmptyEntryInForce(artistID) /\ aw'.id = artistID)
              => aw'.pc # "lookup"]_vars

(***************************************************************************)
(* Value and timestamp of the TTL caches                                   *)
(***************************************************************************)
\* reader p gets the answer to its dataset request in this step, and what
\* FetchArtists then returns
ArtistsAnswered(p) == rd[p].pc = "artistsHTTP" /\ rd'[p].pc # "artistsHTTP"
ArtistsReturned(p) ==
    IF rd'[p].pc = "sugRelations" THEN rd'[p].artists ELSE cev'.artists

\* the same for the relations request and FetchRelations
RelationsAnswered(p) == rd[p].pc = "relationsHTTP" /\ rd'[p].pc # "relationsHTTP"
RelationsReturned(p) ==
    IF rd'[p].pc = "sugStore" THEN rd'[p].staleR ELSE cev'.relations

\* the read of p ends in this step with an error
ReadFailed(p) == rd'[p].pc = "idle" /\ cev'.err

\* the dataset cache: an answered request either stores the value it returns
\* together with the current time, or fails (or falls back to the stale
\* value) and changes nothing; no other step changes the cache
ArtistsStoredTogether ==
    /\ \A p \in Readers : ArtistsAnswered(p) =>
          \/ /\ ~ReadFailed(p)
             /\ artistsCache' = ArtistsReturned(p)
             /\ artistsCacheFetched' = nowMin
          \/ /\ UNCHANGED <<artistsCache, artistsCacheFetched>>
             /\ ReadFailed(p) \/ ArtistsReturned(p) = rd[p].staleA
    /\ (\A p \in Readers : ~ArtistsAnswered(p)) =>
          UNCHANGED <<artistsCache, artistsCacheFetched>>

RelationsStoredTogether ==
    /\ \A p \in Readers : RelationsAnswered(p) =>
          \/ /\ ~ReadFailed(p)
             /\ relationsCache' = RelationsReturned(p)
             /\ relationsCacheFetched' = nowMin
          \/ /\ UNCHANGED <<relationsCache, relationsCacheFetched>>
             /\ ReadFailed(p) \/ RelationsReturned(p) = rd[p].staleR
    /\ (\A p \in Readers : ~RelationsAnswered(p)) =>
          UNCHANGED <<relationsCache, relationsCacheFetched>>

\* the suggestion index: only the end of a successful rebuild changes it, and
\* it stores the items it returns together with the current time
SuggestStoredTogether ==
    /\ \A p \in Readers : (rd[p].pc = "sugStore" /\ rd'[p].pc = "idle") =>
          /\ ~cev'.err
          /\ suggestCacheItems' = cev'.items
          /\ suggestCacheFetched' = nowMin
    /\ (\A p \in Readers : ~(rd[p].pc = "sugStore" /\ rd'[p].pc = "idle")) =>
          UNCHANGED <<suggestCacheItems, suggestCacheFetched>>

\* a cache without a timestamp has no value, and it has a timestamp exactly
\* when a fetch has succeeded
ValueOnlyWithTimestamp ==
    /\ artistsCacheFetched = 0 => artistsCache = <<>>
    /\ relationsCacheFetched = 0 => relationsCache = NilRelations
    /\ suggestCacheFetched = 0 => suggestCacheItems = <<>>
    /\ (artistsCacheFetched # 0) = succeeded["FetchArtists"]
    /\ (relationsCacheFetched # 0) = succeeded["FetchRelations"]
    /\ (suggestCacheFetched # 0) = succeeded["suggest"]

\* C29: in every reachable state of each TTL cache (artist dataset, relations
\* index, suggestion index) the stored value and the stored fetch timestamp
\* come from the same successful fetch: a failed refetch changes neither of
\* them, and a successful one replaces both together, also when several
\* readers refetch concurrently.
C29_ValueAndTimestampTogether ==
    /\ [](ValueOnlyWithTimestamp)
    /\ [][ArtistsStoredTogether /\ RelationsStoredTogether /\ SuggestStoredTogether]_vars

\* the dataset cache after a refetch, when one reader has replaced value and
\* timestamp while the other reader is still waiting for its own answer
C29_Witness ==
    /\ artistsCacheFetched > 1
    /\ artistsCache # <<>>
    /\ \E p \in Readers : rd[p].pc = "artistsHTTP" /\ rd[p].staleA # <<>>

(***************************************************************************)
(* Errors of Geocode                                                       *)
(***************************************************************************)
\* caller p returns from the providers in this step without a result
ReturnsNotFound(p) == gc[p].pc # "idle" /\ gc'[p].pc = "idle" /\ ~gev'.ok

\* caller p starts a call in this step that goes to the providers
QueriesProviders(p) == gc[p].pc = "idle" /\ gc'[p].pc # "idle"

\* C30: Geocode never returns a non-nil error: when every provider request
\* for a key fails with a transport or HTTP error, the call returns (zero
\* result, found=false, nil) and records a not-found cache entry for that
\* key, so no later call for that key queries the providers again for the
\* rest of the process lifetime.
C30_NoErrorAndFailureCached ==
    /\ [](~gev.err)
    /\ [][\A p \in GeoCallers :
            /\ ReturnsNotFound(p) =>
                  /\ gev'.res = ZeroResult /\ ~gev'.err
                  /\ gev'.key = GeoKey(gc[p].n, gc[p].cc)
                  /\ gev'.key \in DOMAIN geoCache'
                  /\ geoCache'[gev'.key].result = ZeroResult
                  /\ ~geoCache'[gev'.key].ok
            /\ QueriesProviders(p) =>
                  GeoKey(gc'[p].n, gc'[p].cc) \notin DOMAIN geoCache
            /\ DOMAIN geoCache \subseteq DOMAIN geoCache']_vars

\* a call without a country code whose context was cancelled, so that its
\* Open-Meteo request and its Nominatim request both failed, has returned
\* not-found without an error and its key has a not-found entry
C30_Witness ==
    /\ gev.kind = "return" /\ ~gev.cached /\ ~gev.ok /\ gev.omErr /\ ~gev.err
    /\ gev.cancelled /\ gev.cc = <<>>
    /\ gev.key \in DOMAIN geoCache
    /\ ~geoCache[gev.key].ok

====
